---- MODULE Spec2Model ----
(***************************************************************************)
(* BenchBoard (src/app.py): metrics aggregation, the per-team archive of   *)
(* report files, the team cache and the best-record scan.                  *)
(*                                                                         *)
(* Time is a natural number of clock ticks (one tick = one millisecond,    *)
(* the resolution of the archive file names).  Python's None is modelled   *)
(* by -1 where the value is otherwise a number, float('inf') by Inf.       *)
(***************************************************************************)
EXTENDS Integers, Sequences, FiniteSets, TLC

\* ------------------------------------------------------------------ bounds
MaxQps == 1
MaxLat == 2
MaxTime == 2
MaxFiles == 3
MaxSubmits == 2
MaxTicks == 1
MaxRestarts == 1
MaxLegacy == 1
\* records not named by a timestamp in the listed directories
MaxListLegacy == 2
\* modification times of the listed files
MaxMtime == 1
\* the directories that are fingerprinted: names of either kind, and files
MaxHashStd == 2
MaxHashOther == 1
MaxHashFiles == 3
\* request threads serving submissions at the same time
MaxThreads == 2
\* submissions accepted for processing in a run of concurrent requests
MaxRequests == 2
\* ticks per calendar year (the first four characters of a timestamp string)
YearLen == 2

\* pages of the history API: directory, limit and offset
MaxPageLegacy == 1

MaxLimit == 2

MaxOffset == 3

\* metrics of one report: counters and bucket counts, length of a bucket list
MaxCount == 3

MaxBuckets == 3

\* records of an archive scanned through the thread pool
MaxPoolFiles == 9
MaxFairFiles == 2

\* ------------------------------------------------------- program constants
\* src/app.py:55, in seconds
CACHE_EXPIRE_SECONDS == 300
\* src/app.py:56
MAX_WORKER_THREADS == 4
\* src/app.py:57 sets 50; scaled down so that archives of MaxFiles records
\* reach the worker-pool path (the comparisons with it are kept as written)
BATCH_SIZE == 2

None == -1
Inf == 1000000
CACHE_EXPIRE_TICKS == CACHE_EXPIRE_SECONDS * 1000

Teams == {"t1", "t2"}
\* a team id that differs from "t1" and names the same directory
SlashTeam == "t1/"
\* every value of the X-Team-ID header considered
TeamIds == Teams \cup {SlashTeam}
\* the directory the path f"data/{team_id}" names, lines 194, 220, 249
team_dir(team_id) == IF team_id = SlashTeam THEN "t1" ELSE team_id
\* the team whose archive is given, or whose submissions run concurrently
ScanTeam == "t1"
TeamNames == {"Alpha"}

\* --------------------------------------------------------------- reports
ZeroBuckets == [i \in 1..13 |-> 0]
OneBuckets == [i \in 1..13 |-> IF i = 3 THEN 1 ELSE 0]

Report(q, tal, a, b) ==
  [avgCompletedQPS |-> q, totalAvgLatency |-> tal, avg |-> a, buckets |-> b]

\* the latency part of a report: precomputed value, histogram average, buckets
LatShapes ==
  {<<l, 0, ZeroBuckets>> : l \in 0..MaxLat}
    \cup {<<None, a, OneBuckets>> : a \in 1..MaxLat}
    \cup {<<None, MaxLat, ZeroBuckets>>}

Reports == {Report(q, s[1], s[2], s[3]) : q \in 0..MaxQps, s \in LatShapes}

\* the reports submitted over HTTP: no latency, or a histogram average
SubmitReports ==
  {Report(q, 0, 0, ZeroBuckets) : q \in 0..MaxQps}
    \cup {Report(q, None, a, OneBuckets) : q \in 0..MaxQps, a \in 1..MaxLat}

RECURSIVE SumSeq(_)
SumSeq(s) == IF s = <<>> THEN 0 ELSE Head(s) + SumSeq(Tail(s))

AvgLatencyIfTruthy(stats) ==
  [avg_latency |->
     IF stats.totalAvgLatency # None /\ stats.totalAvgLatency # 0 THEN stats.totalAvgLatency
     ELSE IF SumSeq(stats.buckets) > 0 THEN stats.avg ELSE 0]

\* lines 144-163 of calculate_overall_metrics: the average latency
calculate_overall_metrics(stats) ==
  [avg_latency |->
     IF stats.totalAvgLatency # None THEN stats.totalAvgLatency
     ELSE IF SumSeq(stats.buckets) > 0 THEN stats.avg ELSE 0]

\* ------------------------------------------------- metrics of one report
\* A float result is kept as an exact fraction num/den (den > 0); float
\* rounding of the last digits is not modelled.  Inf / 1 is float('inf').
Rat(n, d) == [num |-> n, den |-> d]

RatEq(a, b) == a.num * b.den = b.num * a.den

RatLeq(a, b) == a.num * b.den <= b.num * a.den

\* line 108
bucket_boundaries == <<1, 2, 5, 10, 20, 50, 100, 200, 500, 1000, 2000, 5000, Inf>>

\* cumulative before the i-th count is added
RECURSIVE CumulativeBefore(_, _)
CumulativeBefore(buckets, i) ==
  IF i <= 1 THEN 0 ELSE CumulativeBefore(buckets, i - 1) + buckets[i - 1]

\* cumulative after the i-th bucket (i counts from 1)
RECURSIVE Cumulative(_, _)
Cumulative(buckets, i) ==
  IF i = 0 THEN 0 ELSE Cumulative(buckets, i - 1) + buckets[i]

\* the iterations of the loop at which cumulative >= total_requests * 0.99
Reached(buckets) ==
  {i \in 1..Len(buckets) : Cumulative(buckets, i) * 100 >= SumSeq(buckets) * 99}

P99WithoutZeroTest(buckets) ==
  IF Reached(buckets) = {} THEN Rat(bucket_boundaries[Len(bucket_boundaries) - 1], 1)
  ELSE Rat(bucket_boundaries[1], 1)

P99UpperBound(buckets) ==
  IF SumSeq(buckets) = 0 \/ Reached(buckets) = {} THEN Rat(0, 1)
  ELSE Rat(bucket_boundaries[CHOOSE i \in Reached(buckets) :
                               \A j \in Reached(buckets) : i <= j], 1)

\* calculate_p99_latency (lines 106-129) for at most 13 buckets; the loop
\* returns at the first iteration that reaches the threshold
calculate_p99_latency(buckets) ==
  LET total_requests == SumSeq(buckets)
      reached == Reached(buckets)
  IN IF total_requests = 0 THEN Rat(0, 1)
     ELSE IF reached = {} THEN Rat(bucket_boundaries[Len(bucket_boundaries) - 1], 1)
     ELSE LET i == CHOOSE k \in reached : \A j \in reached : k <= j
              count == buckets[i]
              prev_cumulative == Cumulative(buckets, i) - count
          IN IF i = 1 THEN Rat(bucket_boundaries[1], 1)
             ELSE LET lower_bound == bucket_boundaries[i - 1]
                      upper_bound == bucket_boundaries[i]
                  IN IF upper_bound = Inf THEN Rat(Inf, 1)
                     ELSE Rat(lower_bound * 100 * count
                                + (total_requests * 99 - prev_cumulative * 100)
                                    * (upper_bound - lower_bound),
                              100 * count)

LossUnclamped(stats) ==
  IF stats.totalSent = 0 THEN Rat(0, 1)
  ELSE Rat((stats.totalSent - stats.totalOps - stats.pending) * 100, stats.totalSent)

\* calculate_data_loss_rate (lines 131-142)
calculate_data_loss_rate(stats) ==
  LET total_sent == stats.totalSent
      total_ops == stats.totalOps
      pending == stats.pending
      lost == total_sent - total_ops - pending
  IN IF total_sent = 0 THEN Rat(0, 1)
     ELSE IF lost > 0 THEN Rat(lost * 100, total_sent) ELSE Rat(0, 1)

\* ----------------------------------------------------------- archive files
\* A record file of a team directory.  std: the name has the form
\* YYYYMMDD_HHMMSS_mmm.json and id is the time it encodes; otherwise id
\* numbers the file.  ts is the "timestamp" of the content (None when the
\* content has none).  status tells how far the scan can process the file:
\*   "ok"         every step succeeds
\*   "unreadable" open() or json.load() raises
\*   "badqps"     avgCompletedQPS is not a number: the comparison raises
\*   "badmetrics" the QPS is a number, calculate_overall_metrics or the
\*                latency comparison raises
Statuses == {"ok", "unreadable", "badqps", "badmetrics"}

File(std, id, ts, status, stats, mtime) ==
  [std |-> std, id |-> id, ts |-> ts, status |-> status, stats |-> stats, mtime |-> mtime]

NameOf(f) == [std |-> f.std, id |-> f.id]

NoLatest == [present |-> FALSE, team_name |-> "", ts |-> None, stats |-> Report(0, None, 0, ZeroBuckets), mtime |-> 0]

EmptyDir == [exists |-> FALSE, files |-> {}, latest |-> NoLatest]

VARIABLES disk, teams_data, team_cache, now, phase, ret, unseen, nSubmits, nTicks, nRestarts, req, accepted

vars == <<disk, teams_data, team_cache, now, phase, ret, unseen, nSubmits, nTicks, nRestarts, req, accepted>>

\* the request threads; req[th] is the submission thread th is serving
Threads == 1..MaxThreads

Idle == [pc |-> "idle"]

NoRequest == \A th \in Threads : req[th].pc = "idle"

\* accepted[t] holds the report of the last submission for t that passed the
\* update of teams_data (lines 640-668), none before the first

\* ------------------------------------------------------------- team cache
\* dataclass TeamCache; file_mtime_hash is the fingerprint (<<>> models "")
TeamCache(fc, lst, brc, h) ==
  [file_count |-> fc, last_scan_time |-> lst, best_records_cached |-> brc, file_mtime_hash |-> h]

\* every order in which glob may enumerate a set of files
Enumerations(S) ==
  {e \in [1..Cardinality(S) -> S] : \A i, j \in 1..Cardinality(S) : e[i] = e[j] => i = j}

\* "name:mtime" of one directory entry; kind 0: timestamp-named record,
\* 1: other record, 2: latest.json
MtimeEntry(kind, id, mtime) == [kind |-> kind, id |-> id, mtime |-> mtime]

MtimeEntryLess(a, b) ==
  \/ a.kind < b.kind
  \/ a.kind = b.kind /\ a.id < b.id
  \/ a.kind = b.kind /\ a.id = b.id /\ a.mtime < b.mtime

RECURSIVE InsertAsc(_, _)
InsertAsc(sorted, x) ==
  IF sorted = <<>> THEN <<x>>
  ELSE IF MtimeEntryLess(x, Head(sorted)) THEN <<x>> \o sorted
  ELSE <<Head(sorted)>> \o InsertAsc(Tail(sorted), x)

RECURSIVE SortAsc(_)
SortAsc(s) ==
  IF s = <<>> THEN <<>>
  ELSE CHOOSE r \in {InsertAsc(prev, s[Len(s)]) : prev \in {SortAsc(SubSeq(s, 1, Len(s) - 1))}} : TRUE

\* json_files of a team directory in the order enum lists the records,
\* latest.json last (its place does not matter once the list is sorted)
GlobJson(team_id, enum) ==
  [i \in 1..Len(enum) |-> MtimeEntry(IF enum[i].std THEN 0 ELSE 1, enum[i].id, enum[i].mtime)]
    \o (IF disk[team_dir(team_id)].latest.present
        THEN <<MtimeEntry(2, 0, disk[team_dir(team_id)].latest.mtime)>> ELSE <<>>)

\* the join of line 242 without sorted()
HashUnsorted(json_files) == json_files

\* the hash is taken as injective on the joined string
get_file_mtime_hash(json_files) ==
  IF json_files = <<>> THEN <<>> ELSE SortAsc(json_files)

\* ---------------------------------------------------------------- listing
NoTimestamp == [fmt |-> "none", t |-> 0]

Year(t) == t \div YearLen

\* The timestamp string of a listed record: "YYYYMMDDTHH:MM:SS.mmm" built
\* from the file name, or the content's isoformat "YYYY-MM-DDTHH:MM:SS.ffffff"
TimestampOf(f) ==
  IF f.std THEN [fmt |-> "compact", t |-> f.id]
  ELSE IF f.ts = None THEN NoTimestamp
  ELSE [fmt |-> "iso", t |-> f.ts]

\* Python's < on two timestamp strings: equal formats compare by time; in
\* different formats the year digits decide, and within one year the fifth
\* character does: '-' of the iso form sorts before every digit
StrLess(a, b) ==
  IF a.fmt = b.fmt THEN a.t < b.t
  ELSE IF Year(a.t) # Year(b.t) THEN Year(a.t) < Year(b.t)
  ELSE a.fmt = "iso"

HistoryEntry(team_id, f) ==
  [filename |-> NameOf(f), timestamp |-> TimestampOf(f),
   file_path |-> [team |-> team_dir(team_id), name |-> NameOf(f)]]

\* the loop of lines 270-298: a record named by a timestamp is listed
\* without being opened, any other record is opened and skipped when that
\* raises
RECURSIVE ScanDir(_, _)
ScanDir(team_id, enum) ==
  IF enum = <<>> THEN <<>>
  ELSE LET f == Head(enum)
           rest == ScanDir(team_id, Tail(enum))
       IN IF ~f.std /\ f.status = "unreadable" THEN rest
          ELSE <<HistoryEntry(team_id, f)>> \o rest

\* list.sort(key=timestamp, reverse=True): stable, newest string first
RECURSIVE InsertDesc(_, _)
InsertDesc(sorted, x) ==
  IF sorted = <<>> THEN <<x>>
  ELSE IF StrLess(Head(sorted).timestamp, x.timestamp) THEN <<x>> \o sorted
  ELSE <<Head(sorted)>> \o InsertDesc(Tail(sorted), x)

RECURSIVE SortDesc(_)
SortDesc(s) ==
  IF s = <<>> THEN <<>>
  ELSE CHOOSE r \in {InsertDesc(prev, s[Len(s)]) : prev \in {SortDesc(SubSeq(s, 1, Len(s) - 1))}} : TRUE

\* comparing None with a string (or with None) raises TypeError
SortRaises(s) == Len(s) >= 2 /\ \E i \in 1..Len(s) : s[i].timestamp = NoTimestamp

\* the test of lines 258-261: the entry's fingerprint is the directory's and
\* the entry is younger than CACHE_EXPIRE_SECONDS
EntryValid(team_id, current_mtime_hash) ==
  /\ team_id \in DOMAIN team_cache
  /\ team_cache[team_id].file_mtime_hash = current_mtime_hash
  /\ team_cache[team_id].last_scan_time # None
  /\ now - team_cache[team_id].last_scan_time < CACHE_EXPIRE_TICKS

\* the cache entry installed without the existence test of lines 250-251
CacheBeforeExistenceTest(team_id, enum) ==
  [raised |-> FALSE, files |-> <<>>, hit |-> FALSE,
   cache |-> [x \in DOMAIN team_cache \cup {team_id} |->
                IF x = team_id THEN TeamCache(0, now, FALSE, <<>>) ELSE team_cache[x]]]

\* get_team_history_files_cached for the enumeration enum of the records:
\* raised, the returned list, team_cache after the call, and hit: the test
\* of lines 258-261 succeeded
get_team_history_files_cached(team_id, enum) ==
  IF ~disk[team_dir(team_id)].exists
  THEN [raised |-> FALSE, files |-> <<>>, cache |-> team_cache, hit |-> FALSE]
  ELSE LET current_mtime_hash == get_file_mtime_hash(GlobJson(team_id, enum))
           history_files == ScanDir(team_id, enum)
       IN IF SortRaises(history_files)
          THEN [raised |-> TRUE, files |-> <<>>, cache |-> team_cache,
                hit |-> EntryValid(team_id, current_mtime_hash)]
          ELSE [raised |-> FALSE, files |-> SortDesc(history_files),
                hit |-> EntryValid(team_id, current_mtime_hash),
                cache |-> [x \in DOMAIN team_cache \cup {team_id} |->
                             IF x = team_id
                             THEN TeamCache(Len(history_files), now, FALSE, current_mtime_hash)
                             ELSE team_cache[x]]]

\* ------------------------------------------------------- best-record scan
BestInit == [best_qps |-> 0, best_qps_time |-> None, best_latency |-> Inf, best_latency_time |-> None]

ReadFile(file_path) ==
  CHOOSE f \in disk[file_path.team].files : NameOf(f) = file_path.name

\* the body of the for loop of calculate_best_records_batch (lines 485-515):
\* an exception leaves the loop body where it is raised, keeping what the
\* body assigned before
ProcessFile(acc, f) ==
  IF f.status = "unreadable" \/ f.status = "badqps" THEN acc
  ELSE LET current_qps == f.stats.avgCompletedQPS
           a1 == IF current_qps > acc.best_qps
                 THEN [acc EXCEPT !.best_qps = current_qps, !.best_qps_time = f.ts]
                 ELSE acc
       IN IF f.status = "badmetrics" THEN a1
          ELSE LET current_latency == calculate_overall_metrics(f.stats).avg_latency
               IN IF current_latency > 0 /\ current_latency < a1.best_latency
                  THEN [a1 EXCEPT !.best_latency = current_latency, !.best_latency_time = f.ts]
                  ELSE a1

RECURSIVE BatchFrom(_, _)
BatchFrom(acc, file_paths) ==
  IF file_paths = <<>> THEN acc
  ELSE BatchFrom(ProcessFile(acc, ReadFile(Head(file_paths))), Tail(file_paths))

calculate_best_records_batch(file_paths) == BatchFrom(BestInit, file_paths)

Min(a, b) == IF a < b THEN a ELSE b

NumBatches(n) == (n + BATCH_SIZE - 1) \div BATCH_SIZE

\* batches[k] of line 553
Batch(file_paths, k) ==
  SubSeq(file_paths, (k - 1) * BATCH_SIZE + 1, Min(k * BATCH_SIZE, Len(file_paths)))

\* the orders in which as_completed can yield nb futures run by
\* MAX_WORKER_THREADS workers: a batch can complete only once it has started
CompletionOrders(nb) ==
  {o \in [1..nb -> 1..nb] :
     /\ \A i, j \in 1..nb : o[i] = o[j] => i = j
     /\ \A p \in 1..nb : o[p] <= MAX_WORKER_THREADS + p - 1}

\* lines 563-569
MergeBatch(acc, b) ==
  LET a1 == IF b.best_qps > acc.best_qps
            THEN [acc EXCEPT !.best_qps = b.best_qps, !.best_qps_time = b.best_qps_time]
            ELSE acc
  IN IF b.best_latency < a1.best_latency /\ b.best_latency # Inf
     THEN [a1 EXCEPT !.best_latency = b.best_latency, !.best_latency_time = b.best_latency_time]
     ELSE a1

RECURSIVE MergeFrom(_, _, _)
MergeFrom(acc, file_paths, order) ==
  IF order = <<>> THEN acc
  ELSE MergeFrom(MergeBatch(acc, calculate_best_records_batch(Batch(file_paths, Head(order)))),
                 file_paths, Tail(order))

\* the conversion of lines 584-588 left out
KeepInf(b) == b

\* lines 584-588
InfToNone(b) ==
  IF b.best_latency = Inf THEN [b EXCEPT !.best_latency = None, !.best_latency_time = None] ELSE b

\* the file_paths of a listing
FilePaths(history_files) == [i \in 1..Len(history_files) |-> history_files[i].file_path]

\* the completion orders calculate_best_records may see for a listing
OrdersFor(history_files) ==
  IF Len(history_files) <= BATCH_SIZE THEN {<<>>}
  ELSE CompletionOrders(NumBatches(Len(history_files)))

\* calculate_best_records given the listing it obtained and the order in
\* which the batches completed: the returned tuple and team_cache after it,
\* the number of records scanned and whether the thread pool scanned them
BestOfListing(team_id, listing, order) ==
  IF listing.raised
  THEN [val |-> InfToNone(BestInit), cache |-> team_cache,
        count |-> 0, pooled |-> FALSE]
  ELSE IF listing.files = <<>>
  THEN [val |-> [BestInit EXCEPT !.best_latency = None], cache |-> listing.cache,
        count |-> 0, pooled |-> FALSE]
  ELSE LET file_paths == FilePaths(listing.files)
           best == IF Len(file_paths) <= BATCH_SIZE
                   THEN calculate_best_records_batch(file_paths)
                   ELSE MergeFrom(BestInit, file_paths, order)
       IN [val |-> InfToNone(best),
           count |-> Len(file_paths),
           pooled |-> ~(Len(file_paths) <= BATCH_SIZE),
           cache |-> IF team_id \in DOMAIN listing.cache
                     THEN [listing.cache EXCEPT ![team_id].best_records_cached = TRUE]
                     ELSE listing.cache]

\* the test calculate_best_records makes of a cache entry (lines 525-527)
Usable(cache, t, time) ==
  /\ t \in DOMAIN cache
  /\ cache[t].best_records_cached
  /\ cache[t].last_scan_time # None
  /\ time - cache[t].last_scan_time < CACHE_EXPIRE_TICKS

\* every outcome calculate_best_records(team_id) can have in this state
calculate_best_records(team_id) ==
  UNION {LET listing == get_team_history_files_cached(team_id, enum)
         IN {BestOfListing(team_id, listing, order) : order \in OrdersFor(listing.files)}
         : enum \in Enumerations(disk[team_dir(team_id)].files)}

\* -------------------------------------------------------------- live state
\* dataclass TeamData
TeamData(name, lu, stats, bq, bqt, bl, blt) ==
  [team_name |-> name, last_update |-> lu, stats |-> stats, is_active |-> TRUE,
   best_qps |-> bq, best_qps_time |-> bqt, best_latency |-> bl, best_latency_time |-> blt]

EmptyMap == [x \in {} |-> 0]

Put(map, k, v) == [x \in DOMAIN map \cup {k} |-> IF x = k THEN v ELSE map[x]]

Remove(map, k) == [x \in DOMAIN map \ {k} |-> map[x]]

NoUnseen == [qps |-> 0, lat |-> Inf]

\* save_team_data: the record is written under the name of the current
\* millisecond, replacing a file of that name, then latest.json is rewritten
save_team_data(team_id, team_name, stats) ==
  [disk EXCEPT ![team_dir(team_id)] =
     [exists |-> TRUE,
      files |-> {f \in disk[team_dir(team_id)].files : NameOf(f) # [std |-> TRUE, id |-> now]}
                  \cup {File(TRUE, now, now, "ok", stats, now)},
      latest |-> [present |-> TRUE, team_name |-> team_name, ts |-> now,
                  stats |-> stats, mtime |-> now]]]

\* lines 210-211 on their own: the record of the time ts taken at line 199
WriteRecord(team_id, ts, stats) ==
  [disk EXCEPT ![team_dir(team_id)].exists = TRUE,
               ![team_id].files = {f \in @ : NameOf(f) # [std |-> TRUE, id |-> ts]}
                                    \cup {File(TRUE, ts, ts, "ok", stats, now)}]

\* lines 214-216 on their own
WriteLatest(team_id, team_name, ts, stats) ==
  [disk EXCEPT ![team_dir(team_id)].latest = [present |-> TRUE, team_name |-> team_name, ts |-> ts,
                                    stats |-> stats, mtime |-> now]]

\* the update with the best values overwritten by the report's
UpdateTeamOverwrite(team_data, team_name, stats, current_qps, current_latency) ==
  [raised |-> FALSE,
   data |-> [team_data EXCEPT !.best_qps = current_qps, !.best_qps_time = now,
                              !.best_latency = current_latency, !.best_latency_time = now,
                              !.team_name = team_name, !.last_update = now,
                              !.stats = stats, !.is_active = TRUE]]

\* lines 641-657, the update of an existing entry up to the point where the
\* comparison of a positive latency with best_latency = None raises
UpdateTeam(team_data, team_name, stats, current_qps, current_latency) ==
  LET t1 == IF current_qps > team_data.best_qps
            THEN [team_data EXCEPT !.best_qps = current_qps, !.best_qps_time = now]
            ELSE team_data
  IN IF current_latency > 0 /\ t1.best_latency = None
     THEN [raised |-> TRUE, data |-> t1]
     ELSE LET t2 == IF current_latency > 0 /\ current_latency < t1.best_latency
                    THEN [t1 EXCEPT !.best_latency = current_latency, !.best_latency_time = now]
                    ELSE t1
          IN [raised |-> FALSE,
              data |-> [t2 EXCEPT !.team_name = team_name, !.last_update = now,
                                  !.stats = stats, !.is_active = TRUE]]

\* lines 659-668
NewTeam(team_name, stats, current_qps, current_latency) ==
  TeamData(team_name, now, stats,
           current_qps, IF current_qps > 0 THEN now ELSE None,
           IF current_latency > 0 THEN current_latency ELSE Inf,
           IF current_latency > 0 THEN now ELSE None)

\* the payload built without reading teams_data
StatsUpdateWithoutBest(team_id, team_name, data, td) ==
  [team_id |-> team_id, team_name |-> team_name, stats |-> data, timestamp |-> now,
   metrics |-> calculate_overall_metrics(data),
   best_qps |-> 0, best_qps_time |-> None, best_latency |-> None, best_latency_time |-> None]

\* the stats_update payload of lines 674-684
StatsUpdate(team_id, team_name, data, td) ==
  [team_id |-> team_id, team_name |-> team_name, stats |-> data, timestamp |-> now,
   metrics |-> calculate_overall_metrics(data),
   best_qps |-> td.best_qps, best_qps_time |-> td.best_qps_time,
   best_latency |-> IF td.best_latency # Inf THEN td.best_latency ELSE None,
   best_latency_time |-> td.best_latency_time]

\* POST /api/stats/report with a schema-valid body and an X-Team-ID header
submit_stats(team_id, team_name, data) ==
  /\ phase = "serving"
  /\ nSubmits < MaxSubmits
  /\ nSubmits' = nSubmits + 1
  /\ LET current_qps == data.avgCompletedQPS
         current_latency == calculate_overall_metrics(data).avg_latency
         upd == IF team_id \in DOMAIN teams_data
                THEN UpdateTeam(teams_data[team_id], team_name, data, current_qps, current_latency)
                ELSE [raised |-> FALSE, data |-> NewTeam(team_name, data, current_qps, current_latency)]
     IN /\ teams_data' = Put(teams_data, team_id, upd.data)
        /\ IF upd.raised
           THEN /\ disk' = disk
                /\ unseen' = unseen
                /\ accepted' = accepted
                /\ ret' = [op |-> "submit", team |-> team_id, status |-> 400,
                           error |-> "TypeError", events |-> <<>>]
           ELSE /\ disk' = save_team_data(team_id, team_name, data)
                /\ unseen' = [unseen EXCEPT ![team_id] =
                                [qps |-> IF current_qps > @.qps THEN current_qps ELSE @.qps,
                                 lat |-> IF current_latency > 0 /\ current_latency < @.lat
                                         THEN current_latency ELSE @.lat]]
                /\ accepted' = [accepted EXCEPT ![team_id] = <<data>>]
                /\ ret' = [op |-> "submit", team |-> team_id, status |-> 200,
                           error |-> "",
                           events |-> <<StatsUpdate(team_id, team_name, data, upd.data)>>]
  /\ UNCHANGED <<req, team_cache, now, phase, nTicks, nRestarts>>

\* the request bodies lines 614-619 turn down: no JSON body, or one that
\* StatsReport refuses
BadBodies == {"empty", "malformed"}

\* no X-Team-ID header
NoTeam == ""

\* the live entry created before the tests of lines 615-632
RejectedAfterUpdate(team_id, body) ==
  /\ phase = "serving"
  /\ body \in BadBodies \/ team_id = NoTeam
  /\ teams_data' = Put(teams_data, team_id, NewTeam("", Report(0, 0, 0, ZeroBuckets), 0, 0))
  /\ ret' = [op |-> "submit", status |-> 400,
             error |-> IF body \in BadBodies THEN body ELSE "header", events |-> <<>>]
  /\ UNCHANGED <<req, accepted, disk, team_cache, now, phase, unseen, nSubmits, nTicks, nRestarts>>

\* POST /api/stats/report answered at line 616, 632 or, for a body that
\* StatsReport refuses, at line 689
submit_stats_rejected(team_id, body) ==
  /\ phase = "serving"
  /\ body \in BadBodies \/ team_id = NoTeam
  /\ ret' = [op |-> "submit", status |-> 400,
             error |-> IF body \in BadBodies THEN body ELSE "header", events |-> <<>>]
  /\ UNCHANGED <<req, accepted, disk, teams_data, team_cache, now, phase, unseen, nSubmits, nTicks, nRestarts>>

\* GET /api/teams/<team_id>
get_team_stats(team_id) ==
  /\ phase = "serving"
  /\ ret' = IF team_id \in DOMAIN teams_data
            THEN LET team_data == teams_data[team_id]
                 IN [op |-> "stats", team |-> team_id, status |-> 200,
                     stats |-> team_data.stats,
                     metrics |-> calculate_overall_metrics(team_data.stats),
                     best_qps |-> team_data.best_qps,
                     best_latency |-> IF team_data.best_latency # Inf
                                      THEN team_data.best_latency ELSE None]
            ELSE [op |-> "stats", team |-> team_id, status |-> 404]
  /\ UNCHANGED <<req, accepted, disk, teams_data, team_cache, now, phase, unseen, nSubmits, nTicks, nRestarts>>

\* a call of get_team_history_files (history and summary endpoints)
get_team_history_files(team_id) ==
  /\ phase = "serving"
  /\ \E enum \in Enumerations(disk[team_dir(team_id)].files) :
       LET listing == get_team_history_files_cached(team_id, enum)
       IN /\ team_cache' = listing.cache
          /\ ret' = [op |-> "list", team |-> team_id, raised |-> listing.raised,
                     files |-> listing.files, hit |-> listing.hit]
  /\ UNCHANGED <<req, accepted, disk, teams_data, now, phase, unseen, nSubmits, nTicks, nRestarts>>

\* a call of calculate_best_records(team_id)
CalculateBestRecords(team_id) ==
  /\ phase = "serving"
  /\ \E out \in calculate_best_records(team_id) :
       /\ team_cache' = out.cache
       /\ ret' = [op |-> "best", team |-> team_id, val |-> out.val,
                  hit |-> Usable(team_cache, team_id, now),
                  count |-> out.count, pooled |-> out.pooled]
  /\ unseen' = [unseen EXCEPT ![team_id] = NoUnseen]
  /\ UNCHANGED <<req, accepted, disk, teams_data, now, phase, nSubmits, nTicks, nRestarts>>

\* clear_team_cache(team_id)
clear_team_cache(team_id) ==
  /\ phase = "serving"
  /\ team_id \in DOMAIN team_cache
  /\ team_cache' = Remove(team_cache, team_id)
  /\ ret' = [op |-> "clear", team |-> team_id]
  /\ UNCHANGED <<req, accepted, disk, teams_data, now, phase, unseen, nSubmits, nTicks, nRestarts>>

\* clear_team_cache() without a team
clear_all_cache ==
  /\ phase = "serving"
  /\ team_cache # EmptyMap
  /\ team_cache' = EmptyMap
  /\ ret' = [op |-> "clear", team |-> "*"]
  /\ UNCHANGED <<req, accepted, disk, teams_data, now, phase, unseen, nSubmits, nTicks, nRestarts>>

\* the teams load_single_team returns a TeamData for
Loadable == {t \in Teams : disk[t].exists /\ disk[t].latest.present}

\* load_single_team given the outcome of its calculate_best_records call
load_single_team(team_id, out) ==
  TeamData(disk[team_id].latest.team_name,
           IF disk[team_id].latest.ts # None THEN disk[team_id].latest.ts ELSE now,
           disk[team_id].latest.stats,
           out.val.best_qps, out.val.best_qps_time,
           out.val.best_latency, out.val.best_latency_time)

\* load_all_teams_on_startup
load_all_teams_on_startup ==
  /\ phase = "boot"
  /\ phase' = "serving"
  /\ \E outs \in [Loadable -> UNION {calculate_best_records(t) : t \in Loadable}] :
       /\ \A t \in Loadable : outs[t] \in calculate_best_records(t)
       /\ teams_data' = [t \in Loadable |-> load_single_team(t, outs[t])]
       /\ team_cache' = [t \in Loadable |->
                           IF t \in DOMAIN outs[t].cache THEN outs[t].cache[t]
                           ELSE TeamCache(0, None, FALSE, <<>>)]
  /\ ret' = [op |-> "load"]
  /\ UNCHANGED <<req, accepted, disk, now, unseen, nSubmits, nTicks, nRestarts>>

\* the server process is stopped and started again: memory is lost
Restart ==
  /\ phase = "serving"
  /\ NoRequest
  /\ nRestarts < MaxRestarts
  /\ nRestarts' = nRestarts + 1
  /\ phase' = "boot"
  /\ teams_data' = EmptyMap
  /\ team_cache' = EmptyMap
  /\ unseen' = [t \in TeamIds |-> NoUnseen]
  /\ ret' = [op |-> "restart"]
  /\ UNCHANGED <<req, accepted, disk, now, nSubmits, nTicks>>

\* the clock advances by one millisecond or by the cache lifetime; the last
\* result stays what it was
Tick(d) ==
  /\ nTicks < MaxTicks
  /\ nTicks' = nTicks + 1
  /\ now' = now + d
  /\ UNCHANGED <<req, accepted, disk, teams_data, team_cache, phase, ret, unseen, nSubmits, nRestarts>>

Init ==
  /\ disk = [t \in Teams |-> EmptyDir]
  /\ teams_data = EmptyMap
  /\ team_cache = EmptyMap
  /\ now = 0
  /\ phase = "boot"
  /\ ret = [op |-> "start"]
  /\ unseen = [t \in TeamIds |-> NoUnseen]
  /\ nSubmits = 0
  /\ nTicks = 0
  /\ nRestarts = 0
  /\ req = [th \in Threads |-> Idle]
  /\ accepted = [t \in TeamIds |-> <<>>]

Next ==
  \/ load_all_teams_on_startup
  \/ Restart
  \/ \E d \in {1, CACHE_EXPIRE_TICKS} : Tick(d)
  \/ \E t \in Teams, n \in TeamNames, r \in SubmitReports : submit_stats(t, n, r)
  \/ \E t \in Teams : get_team_history_files(t)
  \/ \E t \in Teams : CalculateBestRecords(t)
  \/ \E t \in Teams : clear_team_cache(t)
  \/ clear_all_cache

Spec == Init /\ [][Next]_vars

\* ------------------------------------------------ the live-state endpoints
\* The server seen through the report and team endpoints: submissions that
\* are accepted or turned down, the team query, the scan, restarts.
NextApi ==
  \/ load_all_teams_on_startup
  \/ Restart
  \/ \E d \in {1, CACHE_EXPIRE_TICKS} : Tick(d)
  \/ \E t \in Teams, n \in TeamNames, r \in SubmitReports : submit_stats(t, n, r)
  \/ \E t \in Teams \cup {NoTeam}, b \in BadBodies \cup {"valid"} : submit_stats_rejected(t, b)
  \/ \E t \in Teams : get_team_stats(t)
  \/ \E t \in Teams : CalculateBestRecords(t)

SpecApi == Init /\ [][NextApi]_vars

\* ------------------------------------------------- concurrent submissions
\* submit_stats step by step, as MaxThreads request threads run it: the
\* update of teams_data is one step (it runs under data_lock), every file
\* write of save_team_data and the emit are steps of their own (they run
\* outside the lock).  A request that is not answered yet leaves ret alone.
\* The submissions are for one team, and a request is taken by the first
\* idle thread (the threads are interchangeable).

\* lines 614-668: validation, metrics and the update under data_lock
submit_stats_update(th, team_id, team_name, data) ==
  /\ phase = "serving"
  /\ req[th].pc = "idle"
  /\ nSubmits < MaxRequests
  /\ nSubmits' = nSubmits + 1
  /\ LET current_qps == data.avgCompletedQPS
         current_latency == calculate_overall_metrics(data).avg_latency
         upd == IF team_id \in DOMAIN teams_data
                THEN UpdateTeam(teams_data[team_id], team_name, data, current_qps, current_latency)
                ELSE [raised |-> FALSE, data |-> NewTeam(team_name, data, current_qps, current_latency)]
     IN /\ teams_data' = Put(teams_data, team_id, upd.data)
        /\ IF upd.raised
           THEN /\ req' = req
                /\ accepted' = accepted
                /\ ret' = [op |-> "submit", team |-> team_id, status |-> 400,
                           error |-> "TypeError", events |-> <<>>]
           ELSE /\ req' = [req EXCEPT ![th] =
                             [pc |-> "stamp", team_id |-> team_id, team_name |-> team_name,
                              data |-> data, timestamp |-> None]]
                /\ accepted' = [accepted EXCEPT ![team_id] = <<data>>]
                /\ ret' = ret
  /\ UNCHANGED <<disk, team_cache, now, phase, unseen, nTicks, nRestarts>>

\* save_team_data, lines 194-201: the directory and the record's name
save_team_data_stamp(th) ==
  /\ req[th].pc = "stamp"
  /\ req' = [req EXCEPT ![th].pc = "record", ![th].timestamp = now]
  /\ disk' = [disk EXCEPT ![req[th].team_id].exists = TRUE]
  /\ UNCHANGED <<accepted, teams_data, team_cache, now, phase, ret, unseen, nSubmits, nTicks, nRestarts>>

\* save_team_data, lines 210-211
save_team_data_record(th) ==
  /\ req[th].pc = "record"
  /\ req' = [req EXCEPT ![th].pc = "latest"]
  /\ disk' = WriteRecord(req[th].team_id, req[th].timestamp, req[th].data)
  /\ UNCHANGED <<accepted, teams_data, team_cache, now, phase, ret, unseen, nSubmits, nTicks, nRestarts>>

\* save_team_data, lines 214-216
save_team_data_latest(th) ==
  /\ req[th].pc = "latest"
  /\ req' = [req EXCEPT ![th].pc = "emit"]
  /\ disk' = WriteLatest(req[th].team_id, req[th].team_name, req[th].timestamp, req[th].data)
  /\ UNCHANGED <<accepted, teams_data, team_cache, now, phase, ret, unseen, nSubmits, nTicks, nRestarts>>

\* lines 674-686: the event, built from teams_data as it is now, and the
\* answer
submit_stats_emit(th) ==
  /\ req[th].pc = "emit"
  /\ req' = [req EXCEPT ![th] = Idle]
  /\ ret' = [op |-> "submit", team |-> req[th].team_id, status |-> 200, error |-> "",
             events |-> <<StatsUpdate(req[th].team_id, req[th].team_name, req[th].data,
                                      teams_data[req[th].team_id])>>]
  /\ UNCHANGED <<accepted, disk, teams_data, team_cache, now, phase, unseen, nSubmits, nTicks, nRestarts>>

NextConc ==
  \/ load_all_teams_on_startup
  \/ Restart
  \/ \E d \in {1, CACHE_EXPIRE_TICKS} : Tick(d)
  \/ \E th \in Threads, n \in TeamNames, r \in SubmitReports :
       /\ \A other \in Threads : other < th => req[other].pc # "idle"
       /\ submit_stats_update(th, ScanTeam, n, r)
  \/ \E th \in Threads : save_team_data_stamp(th)
  \/ \E th \in Threads : save_team_data_record(th)
  \/ \E th \in Threads : save_team_data_latest(th)
  \/ \E th \in Threads : submit_stats_emit(th)
  \/ \E t \in Teams : get_team_stats(t)

SpecConc == Init /\ [][NextConc]_vars

\* ------------------------------------------------ scans of a given archive
\* The archive of team "t1" is any directory of at most MaxFiles records:
\* timestamp-named records whose content carries the time of the name, and
\* otherwise named records whose content may carry any time or none.
FailedContents ==
  {[status |-> st, stats |-> Report(0, None, 0, ZeroBuckets)] : st \in {"unreadable", "badqps"}}
    \cup {[status |-> "badmetrics", stats |-> Report(q, None, 0, ZeroBuckets)] : q \in 0..MaxQps}

StdContents == {[status |-> "ok", stats |-> r] : r \in Reports} \cup FailedContents

LegacyContents ==
  {[ts |-> ts, status |-> "ok", stats |-> Report(q, 0, 0, ZeroBuckets)] :
     ts \in {None} \cup 0..MaxTime, q \in 0..MaxQps}
    \cup {[ts |-> None, status |-> "unreadable", stats |-> Report(0, None, 0, ZeroBuckets)]}

Archive(cs, cl) ==
  {File(TRUE, n, n, cs[n].status, cs[n].stats, 0) : n \in DOMAIN cs}
    \cup {File(FALSE, n, cl[n].ts, cl[n].status, cl[n].stats, 0) : n \in DOMAIN cl}

InitScan ==
  /\ \E ns \in SUBSET (0..MaxTime), nl \in SUBSET (0..MaxLegacy - 1) :
       /\ Cardinality(ns) + Cardinality(nl) <= MaxFiles
       /\ \E cs \in [ns -> StdContents], cl \in [nl -> LegacyContents] :
            disk = [t \in Teams |->
                      IF t = ScanTeam
                      THEN [exists |-> TRUE, files |-> Archive(cs, cl), latest |-> NoLatest]
                      ELSE EmptyDir]
  /\ teams_data = EmptyMap
  /\ team_cache = EmptyMap
  /\ now = MaxTime + 1
  /\ phase = "serving"
  /\ ret = [op |-> "start"]
  /\ unseen = [t \in TeamIds |-> NoUnseen]
  /\ nSubmits = 0
  /\ nTicks = 0
  /\ nRestarts = 0
  /\ req = [th \in Threads |-> Idle]
  /\ accepted = [t \in TeamIds |-> <<>>]

NextScan ==
  \/ get_team_history_files(ScanTeam)
  \/ CalculateBestRecords(ScanTeam)

SpecScan == InitScan /\ [][NextScan]_vars

\* --------------------------------------------- listings of a given directory
\* The directory of team "t1" holds timestamp-named records and up to
\* MaxListLegacy otherwise named ones, whose content may carry any time, the
\* same time as another, or none; every file has some modification time.
ListContents ==
  {[ts |-> ts, status |-> "ok"] : ts \in {None} \cup 0..MaxTime}
    \cup {[ts |-> None, status |-> "unreadable"]}

Directory(ns, cl, mt, ml) ==
  {File(TRUE, n, n, "ok", Report(0, 0, 0, ZeroBuckets), mt[n]) : n \in ns}
    \cup {File(FALSE, n, cl[n].ts, cl[n].status, Report(0, 0, 0, ZeroBuckets), ml[n]) :
            n \in DOMAIN cl}

InitList ==
  /\ \E ns \in SUBSET (0..MaxTime), nl \in SUBSET (0..MaxListLegacy - 1) :
       /\ Cardinality(ns) + Cardinality(nl) <= MaxFiles
       /\ \E cl \in [nl -> ListContents], mt \in [ns -> 0..MaxMtime], ml \in [nl -> 0..MaxMtime] :
            disk = [t \in Teams |->
                      IF t = ScanTeam
                      THEN [exists |-> TRUE, files |-> Directory(ns, cl, mt, ml),
                            latest |-> NoLatest]
                      ELSE EmptyDir]
  /\ teams_data = EmptyMap
  /\ team_cache = EmptyMap
  /\ now = MaxTime + 1
  /\ phase = "serving"
  /\ ret = [op |-> "start"]
  /\ unseen = [t \in TeamIds |-> NoUnseen]
  /\ nSubmits = 0
  /\ nTicks = 0
  /\ nRestarts = 0
  /\ req = [th \in Threads |-> Idle]
  /\ accepted = [t \in TeamIds |-> <<>>]

NextList == get_team_history_files(ScanTeam)

SpecList == InitList /\ [][NextList]_vars

\* ------------------------------------------ fingerprints of a given directory
\* The directory of team "t1" holds at most MaxHashFiles records of either
\* kind of name and possibly latest.json, each with some modification time;
\* the listing fingerprints it in whatever order glob enumerates it.
InitHash ==
  /\ \E ns \in SUBSET (0..MaxHashStd - 1), nl \in SUBSET (0..MaxHashOther - 1) :
       /\ Cardinality(ns) + Cardinality(nl) <= MaxHashFiles
       /\ \E mt \in [ns -> 0..MaxMtime], ml \in [nl -> 0..MaxMtime],
             lp \in BOOLEAN, lm \in 0..MaxMtime :
            disk = [t \in Teams |->
                      IF t = ScanTeam
                      THEN [exists |-> TRUE,
                            files |-> Directory(ns, [n \in nl |-> [ts |-> n, status |-> "ok"]], mt, ml),
                            latest |-> [NoLatest EXCEPT !.present = lp, !.mtime = lm]]
                      ELSE EmptyDir]
  /\ teams_data = EmptyMap
  /\ team_cache = EmptyMap
  /\ now = MaxTime + 1
  /\ phase = "serving"
  /\ ret = [op |-> "start"]
  /\ unseen = [t \in TeamIds |-> NoUnseen]
  /\ nSubmits = 0
  /\ nTicks = 0
  /\ nRestarts = 0
  /\ req = [th \in Threads |-> Idle]
  /\ accepted = [t \in TeamIds |-> <<>>]

NextHash == get_team_history_files(ScanTeam)

SpecHash == InitHash /\ [][NextHash]_vars

\* ---------------------------------------------- pages of a given directory
\* GET /api/teams/<id>/history?limit=&offset= (lines 726-773): the listing,
\* its slice [offset:offset + limit], and the records of the slice that can
\* be opened and parsed; a record that cannot is left out of the page
RECURSIVE LoadPage(_)
LoadPage(paginated_files) ==
  IF paginated_files = <<>> THEN <<>>
  ELSE LET file_info == Head(paginated_files)
           rest == LoadPage(Tail(paginated_files))
       IN IF ReadFile(file_info.file_path).status = "unreadable" THEN rest
          ELSE <<file_info.filename>> \o rest

get_team_history(team_id, limit, offset) ==
  /\ phase = "serving"
  /\ \E enum \in Enumerations(disk[team_dir(team_id)].files) :
       LET listing == get_team_history_files_cached(team_id, enum)
           history_files == listing.files
           total == Len(history_files)
           paginated_files == SubSeq(history_files, offset + 1, Min(offset + limit, total))
       IN /\ team_cache' = listing.cache
          /\ ret' = IF listing.raised
                    THEN [op |-> "history", team |-> team_id, status |-> 400,
                          history |-> <<>>, total |-> 0, limit |-> limit,
                          offset |-> offset, has_more |-> FALSE]
                    ELSE IF history_files = <<>>
                    THEN [op |-> "history", team |-> team_id, status |-> 200,
                          history |-> <<>>, total |-> 0, limit |-> limit,
                          offset |-> offset, has_more |-> FALSE]
                    ELSE [op |-> "history", team |-> team_id, status |-> 200,
                          history |-> LoadPage(paginated_files), total |-> total,
                          limit |-> limit, offset |-> offset,
                          has_more |-> offset + limit < total]
  /\ UNCHANGED <<req, accepted, disk, teams_data, now, phase, unseen, nSubmits, nTicks, nRestarts>>

\* The directory of team "t1" holds timestamp-named records, readable or
\* not (a record is unreadable while save_team_data is still writing it),
\* and up to MaxPageLegacy otherwise named ones.
PageDirectory(ns, st, cl) ==
  {File(TRUE, n, n, st[n], Report(0, 0, 0, ZeroBuckets), 0) : n \in ns}
    \cup {File(FALSE, n, cl[n].ts, cl[n].status, Report(0, 0, 0, ZeroBuckets), 0) :
            n \in DOMAIN cl}

InitPage ==
  /\ \E ns \in SUBSET (0..MaxTime), nl \in SUBSET (0..MaxPageLegacy - 1) :
       /\ Cardinality(ns) + Cardinality(nl) <= MaxFiles
       /\ \E st \in [ns -> {"ok", "unreadable"}], cl \in [nl -> ListContents] :
            disk = [t \in Teams |->
                      IF t = ScanTeam
                      THEN [exists |-> TRUE, files |-> PageDirectory(ns, st, cl),
                            latest |-> NoLatest]
                      ELSE EmptyDir]
  /\ teams_data = EmptyMap
  /\ team_cache = EmptyMap
  /\ now = MaxTime + 1
  /\ phase = "serving"
  /\ ret = [op |-> "start"]
  /\ unseen = [t \in TeamIds |-> NoUnseen]
  /\ nSubmits = 0
  /\ nTicks = 0
  /\ nRestarts = 0
  /\ req = [th \in Threads |-> Idle]
  /\ accepted = [t \in TeamIds |-> <<>>]

NextPage ==
  \E limit \in 1..MaxLimit, offset \in 0..MaxOffset :
    get_team_history(ScanTeam, limit, offset)

SpecPage == InitPage /\ [][NextPage]_vars

\* ------------------------------------------------ metrics of a given report
\* calculate_data_loss_rate, the average latency of calculate_overall_metrics
\* and calculate_p99_latency applied to a report drawn from small sets that
\* hold the reports of the worked examples.
Counters == 0..MaxCount \cup {15, 980, 1000}

ExampleBuckets == <<100, 200, 150, 80, 50, 20, 10, 5, 2, 1, 0, 0, 0>>

\* bucket lists: every list of up to MaxBuckets counts, the 13-bucket lists
\* with all requests in one bucket, and the worked example
Histograms ==
  UNION {[1..n -> 0..MaxCount] : n \in 0..MaxBuckets}
    \cup {[i \in 1..13 |-> IF i = k THEN c ELSE 0] : k \in 1..13, c \in 1..MaxCount}
    \cup {ExampleBuckets}

LatencyReports ==
  {Report(0, tal, a, b) : tal \in {None} \cup 0..MaxLat, a \in 0..MaxLat,
                          b \in {<<>>, ZeroBuckets, OneBuckets}}

DataLossRate(total_sent, total_ops, pending) ==
  LET stats == [totalSent |-> total_sent, totalOps |-> total_ops, pending |-> pending]
  IN /\ ret' = [op |-> "loss", stats |-> stats, val |-> calculate_data_loss_rate(stats)]
     /\ UNCHANGED <<disk, teams_data, team_cache, now, phase, unseen, nSubmits, nTicks, nRestarts, req, accepted>>

OverallAvgLatency(stats) ==
  /\ ret' = [op |-> "avg", stats |-> stats,
             val |-> calculate_overall_metrics(stats).avg_latency]
  /\ UNCHANGED <<disk, teams_data, team_cache, now, phase, unseen, nSubmits, nTicks, nRestarts, req, accepted>>

P99Latency(buckets) ==
  /\ ret' = [op |-> "p99", buckets |-> buckets, val |-> calculate_p99_latency(buckets)]
  /\ UNCHANGED <<disk, teams_data, team_cache, now, phase, unseen, nSubmits, nTicks, nRestarts, req, accepted>>

InitMetrics ==
  /\ disk = [t \in Teams |-> EmptyDir]
  /\ teams_data = EmptyMap
  /\ team_cache = EmptyMap
  /\ now = 0
  /\ phase = "serving"
  /\ ret = [op |-> "start"]
  /\ unseen = [t \in TeamIds |-> NoUnseen]
  /\ nSubmits = 0
  /\ nTicks = 0
  /\ nRestarts = 0
  /\ req = [th \in Threads |-> Idle]
  /\ accepted = [t \in TeamIds |-> <<>>]

NextMetrics ==
  \/ \E total_sent \in Counters, total_ops \in Counters, pending \in Counters :
       DataLossRate(total_sent, total_ops, pending)
  \/ \E stats \in LatencyReports : OverallAvgLatency(stats)
  \/ \E buckets \in Histograms : P99Latency(buckets)

SpecMetrics == InitMetrics /\ [][NextMetrics]_vars

\* ---------------------------------------------- cache operations in steps
\* A listing (get_team_history_files_cached), a scan (calculate_best_records)
\* and team_history_page as request threads run them.  req[th].pc is the
\* statement thread th executes next:
\*   "acquire"  `with cache_lock:` of line 253
\*   "hash"     line 256, get_file_mtime_hash, inside that block
\*   "glob"     lines 266-301, the rescan and the sort
\*   "install"  lines 303-309
\*   "read"     lines 545-573, the batches
\*   "mark"     lines 575-578
\*   "load"     line 605, load_team_data, inside `with data_lock:` of line 599
\*   "latency"  lines 648-651, "rest" lines 653-657, inside `with data_lock:`
\*              of line 640
\* A thread holds a lock from the step that enters the with block to the
\* step that leaves it; blocks without a statement of their own above are
\* entered and left within one step.
HoldsCacheLock(th) == req[th].pc = "hash"

HoldsDataLock(th) == req[th].pc \in {"load", "latency", "rest"}

CacheLockFree == \A th \in Threads : ~HoldsCacheLock(th)

DataLockFree == \A th \in Threads : ~HoldsDataLock(th)

\* the statements that list a directory, read a modification time, or read
\* or write a file
AtFileIO(th) == req[th].pc \in {"hash", "glob", "read", "load", "stamp", "record", "latest"}

\* what the call returns to its caller: the list, or the tuple of
\* calculate_best_records
CacheReturn(r, raised, files, best) ==
  IF r.kind = "list"
  THEN [op |-> "list", team |-> r.team_id, raised |-> raised, files |-> files,
        hit |-> r.hit]
  ELSE [op |-> "best", team |-> r.team_id, val |-> InfToNone(best), hit |-> r.hit,
        count |-> Len(files), pooled |-> ~(Len(files) <= BATCH_SIZE)]

\* lines 523-529 (a scan only) and 249-251: the caller's test of the entry
\* and the existence test of the directory
cache_begin(th, kind, team_id) ==
  /\ phase = "serving"
  /\ req[th].pc = "idle"
  /\ kind = "scan" => CacheLockFree
  /\ LET r == [pc |-> "acquire", kind |-> kind, team_id |-> team_id,
               hit |-> kind = "scan" /\ Usable(team_cache, team_id, now),
               hash |-> <<>>, globbed |-> <<>>, files |-> <<>>, best |-> BestInit,
               installed |-> <<>>]
     IN IF disk[team_dir(team_id)].exists
        THEN /\ req' = [req EXCEPT ![th] = r]
             /\ ret' = ret
        ELSE /\ req' = req
             /\ ret' = CacheReturn(r, FALSE, <<>>, [BestInit EXCEPT !.best_latency = None])
  /\ UNCHANGED <<accepted, disk, teams_data, team_cache, now, phase, unseen, nSubmits, nTicks, nRestarts>>

\* line 253
cache_acquire(th) ==
  /\ req[th].pc = "acquire"
  /\ CacheLockFree
  /\ req' = [req EXCEPT ![th].pc = "hash"]
  /\ UNCHANGED <<accepted, disk, teams_data, team_cache, now, phase, ret, unseen, nSubmits, nTicks, nRestarts>>

\* lines 255-263: the fingerprint of the directory as it is now and the test
\* of the entry, which only logs
cache_hash(th) ==
  /\ req[th].pc = "hash"
  /\ \E enum \in Enumerations(disk[req[th].team_id].files) :
       LET current_mtime_hash == get_file_mtime_hash(GlobJson(req[th].team_id, enum))
       IN req' = [req EXCEPT ![th].pc = "glob",
                             ![th].hash = current_mtime_hash,
                             ![th].hit = IF req[th].kind = "list"
                                         THEN EntryValid(req[th].team_id, current_mtime_hash)
                                         ELSE @]
  /\ UNCHANGED <<accepted, disk, teams_data, team_cache, now, phase, ret, unseen, nSubmits, nTicks, nRestarts>>

\* lines 266-301: the rescan of the directory as it is now and the sort;
\* globbed remembers the fingerprint of the directory that was listed
cache_glob(th) ==
  /\ req[th].pc = "glob"
  /\ \E enum \in Enumerations(disk[req[th].team_id].files) :
       LET history_files == ScanDir(req[th].team_id, enum)
       IN IF SortRaises(history_files)
          THEN /\ req' = [req EXCEPT ![th] = Idle]
               /\ ret' = CacheReturn(req[th], TRUE, <<>>, BestInit)
          ELSE /\ req' = [req EXCEPT ![th].pc = "install",
                                     ![th].files = SortDesc(history_files),
                                     ![th].globbed =
                                       get_file_mtime_hash(GlobJson(req[th].team_id, enum))]
               /\ ret' = ret
  /\ UNCHANGED <<accepted, disk, teams_data, team_cache, now, phase, unseen, nSubmits, nTicks, nRestarts>>

\* lines 303-311 and, for a scan, 541-542; installed remembers the entry
cache_install(th) ==
  /\ req[th].pc = "install"
  /\ CacheLockFree
  /\ LET r == req[th]
         entry == TeamCache(Len(r.files), now, FALSE, r.hash)
     IN /\ team_cache' = Put(team_cache, r.team_id, entry)
        /\ IF r.kind = "list"
           THEN /\ req' = [req EXCEPT ![th] = Idle]
                /\ ret' = CacheReturn(r, FALSE, r.files, BestInit)
           ELSE IF r.files = <<>>
           THEN /\ req' = [req EXCEPT ![th] = Idle]
                /\ ret' = CacheReturn(r, FALSE, <<>>, [BestInit EXCEPT !.best_latency = None])
           ELSE /\ req' = [req EXCEPT ![th].pc = "read", ![th].installed = entry]
                /\ ret' = ret
  /\ UNCHANGED <<accepted, disk, teams_data, now, phase, unseen, nSubmits, nTicks, nRestarts>>

\* lines 543-573: the records of the listing are read as they are now
scan_read(th) ==
  /\ req[th].pc = "read"
  /\ \E order \in OrdersFor(req[th].files) :
       LET file_paths == FilePaths(req[th].files)
           best == IF Len(file_paths) <= BATCH_SIZE
                   THEN calculate_best_records_batch(file_paths)
                   ELSE MergeFrom(BestInit, file_paths, order)
       IN req' = [req EXCEPT ![th].pc = "mark", ![th].best = best]
  /\ UNCHANGED <<accepted, disk, teams_data, team_cache, now, phase, ret, unseen, nSubmits, nTicks, nRestarts>>

\* lines 575-588
scan_mark(th) ==
  /\ req[th].pc = "mark"
  /\ CacheLockFree
  /\ team_cache' = IF req[th].team_id \in DOMAIN team_cache
                   THEN [team_cache EXCEPT ![req[th].team_id].best_records_cached = TRUE]
                   ELSE team_cache
  /\ req' = [req EXCEPT ![th] = Idle]
  /\ ret' = CacheReturn(req[th], FALSE, req[th].files, req[th].best)
  /\ UNCHANGED <<accepted, disk, teams_data, now, phase, unseen, nSubmits, nTicks, nRestarts>>

\* the name team_history_page falls back to (line 606)
DefaultName(team_id) == <<"Team-", team_id>>

\* lines 599-603: under data_lock, the name of a team with live state
team_history_page(th, team_id) ==
  /\ phase = "serving"
  /\ req[th].pc = "idle"
  /\ DataLockFree
  /\ IF team_id \in DOMAIN teams_data
     THEN /\ req' = req
          /\ ret' = [op |-> "page", team |-> team_id,
                     team_name |-> teams_data[team_id].team_name]
     ELSE /\ req' = [req EXCEPT ![th] = [pc |-> "load", team_id |-> team_id]]
          /\ ret' = ret
  /\ UNCHANGED <<accepted, disk, teams_data, team_cache, now, phase, unseen, nSubmits, nTicks, nRestarts>>

\* lines 604-608: latest.json is read inside the with block
team_history_page_load(th) ==
  /\ req[th].pc = "load"
  /\ req' = [req EXCEPT ![th] = Idle]
  /\ ret' = [op |-> "page", team |-> req[th].team_id,
             team_name |-> IF disk[req[th].team_id].latest.present
                           THEN disk[req[th].team_id].latest.team_name
                           ELSE DefaultName(req[th].team_id)]
  /\ UNCHANGED <<accepted, disk, teams_data, team_cache, now, phase, unseen, nSubmits, nTicks, nRestarts>>

\* the reports submitted while cache operations run
CacheReports == {Report(q, 0, 0, ZeroBuckets) : q \in 0..MaxQps}

\* Requests are for one team and are taken by the first idle thread;
\* submissions and cache clears are whole steps that wait for their lock.
FirstIdle(th) == \A other \in Threads : other < th => req[other].pc # "idle"

NextCache ==
  \/ load_all_teams_on_startup
  \/ Tick(1)
  \/ \E n \in TeamNames, r \in CacheReports :
       DataLockFree /\ submit_stats(ScanTeam, n, r)
  \/ CacheLockFree /\ clear_team_cache(ScanTeam)
  \/ \E th \in Threads, kind \in {"list", "scan"} :
       FirstIdle(th) /\ cache_begin(th, kind, ScanTeam)
  \/ \E th \in Threads : cache_acquire(th)
  \/ \E th \in Threads : cache_hash(th)
  \/ \E th \in Threads : cache_glob(th)
  \/ \E th \in Threads : cache_install(th)
  \/ \E th \in Threads : scan_read(th)
  \/ \E th \in Threads : scan_mark(th)
  \/ \E th \in Threads, t \in Teams : FirstIdle(th) /\ team_history_page(th, t)
  \/ \E th \in Threads : team_history_page_load(th)

SpecCache == Init /\ [][NextCache]_vars

\* ------------------------------------------- live state read and written
\* submit_stats with the statements of its locked block and the reads of its
\* emit as steps.  The block of lines 640-668 runs under data_lock; the
\* payload of lines 674-684 is built without it, one read of
\* teams_data[team_id] after the other (here: the two QPS fields, then the
\* two latency fields).  seen is kept for the claims: the best values the
\* entry had after each complete update since the thread's own.
BestView(td) ==
  [best_qps |-> td.best_qps, best_qps_time |-> td.best_qps_time,
   best_latency |-> IF td.best_latency # Inf THEN td.best_latency ELSE None,
   best_latency_time |-> td.best_latency_time]

\* the threads between their update and their emit learn of a complete update
Publish(rq, th, team_id, td) ==
  [o \in Threads |->
     IF o = th THEN rq[o]
     ELSE IF rq[o].pc \in {"save", "emit_qps", "emit_latency"} /\ rq[o].team_id = team_id
     THEN [rq[o] EXCEPT !.seen = @ \cup {BestView(td)}]
     ELSE rq[o]]

\* lines 614-646 and 657-668: validation, metrics, and under data_lock the
\* new entry, or the QPS fields of the existing one
submit_stats_qps(th, team_id, team_name, data) ==
  /\ phase = "serving"
  /\ req[th].pc = "idle"
  /\ DataLockFree
  /\ nSubmits < MaxRequests
  /\ nSubmits' = nSubmits + 1
  /\ LET current_qps == data.avgCompletedQPS
         current_latency == calculate_overall_metrics(data).avg_latency
         r == [pc |-> "latency", team_id |-> team_id, team_name |-> team_name,
               data |-> data, current_latency |-> current_latency,
               best_qps |-> 0, best_qps_time |-> None, seen |-> {}]
     IN IF team_id \in DOMAIN teams_data
        THEN /\ teams_data' =
                  IF current_qps > teams_data[team_id].best_qps
                  THEN [teams_data EXCEPT ![team_id].best_qps = current_qps,
                                          ![team_id].best_qps_time = now]
                  ELSE teams_data
             /\ req' = [req EXCEPT ![th] = r]
             /\ accepted' = accepted
        ELSE LET td == NewTeam(team_name, data, current_qps, current_latency)
             IN /\ teams_data' = Put(teams_data, team_id, td)
                /\ req' = Publish([req EXCEPT ![th] = [r EXCEPT !.pc = "save",
                                                                !.seen = {BestView(td)}]],
                                  th, team_id, td)
                /\ accepted' = [accepted EXCEPT ![team_id] = <<data>>]
  /\ UNCHANGED <<disk, team_cache, now, phase, ret, unseen, nTicks, nRestarts>>

\* lines 648-651; comparing with best_latency = None raises TypeError, which
\* leaves the block and is answered with 400
submit_stats_latency(th) ==
  /\ req[th].pc = "latency"
  /\ LET r == req[th]
         team_data == teams_data[r.team_id]
     IN IF r.current_latency > 0 /\ team_data.best_latency = None
        THEN /\ teams_data' = teams_data
             /\ req' = [req EXCEPT ![th] = Idle]
             /\ ret' = [op |-> "submit", team |-> r.team_id, status |-> 400,
                        error |-> "TypeError", events |-> <<>>]
        ELSE /\ teams_data' =
                  IF r.current_latency > 0 /\ r.current_latency < team_data.best_latency
                  THEN [teams_data EXCEPT ![r.team_id].best_latency = r.current_latency,
                                          ![r.team_id].best_latency_time = now]
                  ELSE teams_data
             /\ req' = [req EXCEPT ![th].pc = "rest"]
             /\ ret' = ret
  /\ UNCHANGED <<accepted, disk, team_cache, now, phase, unseen, nSubmits, nTicks, nRestarts>>

\* lines 653-657, the end of the block
submit_stats_rest(th) ==
  /\ req[th].pc = "rest"
  /\ LET r == req[th]
         td == [teams_data[r.team_id] EXCEPT !.team_name = r.team_name, !.last_update = now,
                                             !.stats = r.data, !.is_active = TRUE]
     IN /\ teams_data' = [teams_data EXCEPT ![r.team_id] = td]
        /\ req' = Publish([req EXCEPT ![th].pc = "save", ![th].seen = {BestView(td)}],
                          th, r.team_id, td)
        /\ accepted' = [accepted EXCEPT ![r.team_id] = <<r.data>>]
  /\ UNCHANGED <<disk, team_cache, now, phase, ret, unseen, nSubmits, nTicks, nRestarts>>

\* line 671
submit_stats_save(th) ==
  /\ req[th].pc = "save"
  /\ disk' = save_team_data(req[th].team_id, req[th].team_name, req[th].data)
  /\ req' = [req EXCEPT ![th].pc = "emit_qps"]
  /\ UNCHANGED <<accepted, teams_data, team_cache, now, phase, ret, unseen, nSubmits, nTicks, nRestarts>>

\* lines 680-681: the reads of best_qps and best_qps_time
submit_stats_emit_qps(th) ==
  /\ req[th].pc = "emit_qps"
  /\ req' = [req EXCEPT ![th].pc = "emit_latency",
                        ![th].best_qps = teams_data[req[th].team_id].best_qps,
                        ![th].best_qps_time = teams_data[req[th].team_id].best_qps_time]
  /\ UNCHANGED <<accepted, disk, teams_data, team_cache, now, phase, ret, unseen, nSubmits, nTicks, nRestarts>>

\* lines 682-686: the reads of best_latency and best_latency_time, the emit
\* and the answer
submit_stats_emit_latency(th) ==
  /\ req[th].pc = "emit_latency"
  /\ LET r == req[th]
         read == [teams_data[r.team_id] EXCEPT !.best_qps = r.best_qps,
                                               !.best_qps_time = r.best_qps_time]
     IN ret' = [op |-> "submit", team |-> r.team_id, status |-> 200, error |-> "",
                events |-> <<StatsUpdate(r.team_id, r.team_name, r.data, read)>>]
  /\ req' = [req EXCEPT ![th] = Idle]
  /\ UNCHANGED <<accepted, disk, teams_data, team_cache, now, phase, unseen, nSubmits, nTicks, nRestarts>>

NextEmit ==
  \/ load_all_teams_on_startup
  \/ Tick(1)
  \/ \E th \in Threads, n \in TeamNames, r \in SubmitReports :
       FirstIdle(th) /\ submit_stats_qps(th, ScanTeam, n, r)
  \/ \E th \in Threads : submit_stats_latency(th)
  \/ \E th \in Threads : submit_stats_rest(th)
  \/ \E th \in Threads : submit_stats_save(th)
  \/ \E th \in Threads : submit_stats_emit_qps(th)
  \/ \E th \in Threads : submit_stats_emit_latency(th)
  \/ \E t \in Teams : DataLockFree /\ get_team_stats(t)

SpecEmit == Init /\ [][NextEmit]_vars

\* ------------------------------------------------- the pooled scan in steps
\* calculate_best_records for an archive of timestamp-named records, with
\* the thread pool of lines 555-573 as steps.  status[k] of batch k is
\*   "queued"   submitted to the executor (line 556), not taken by a worker
\*   "running"  a worker executes calculate_best_records_batch on it
\*   "done"     the future has its result, as_completed has not yielded it
\*   "merged"   the loop body of lines 559-573 has run for it
\* The executor starts queued batches in the order of submission, as long as
\* fewer than MAX_WORKER_THREADS workers are busy.

\* one order in which glob may enumerate a directory; the listing of
\* timestamp-named records does not depend on it
RECURSIVE AnEnumeration(_)
AnEnumeration(S) ==
  IF S = {} THEN <<>>
  ELSE LET f == CHOOSE x \in S : TRUE IN <<f>> \o AnEnumeration(S \ {f})

Running(status) == {k \in DOMAIN status : status[k] = "running"}

Queued(status) == {k \in DOMAIN status : status[k] = "queued"}

ReturnsAfterFirstMerge(status) == \E k \in DOMAIN status : status[k] = "merged"

\* as_completed is exhausted (line 558) and the executor's with block has
\* been left: every future was yielded and its loop body has run
PoolDrained(status) == \A k \in DOMAIN status : status[k] = "merged"

\* lines 519-556: the cache test, the listing, and for more than BATCH_SIZE
\* records the batches submitted to the executor; a smaller archive is
\* scanned and answered at once
pool_begin(th, team_id) ==
  /\ phase = "serving"
  /\ req[th].pc = "idle"
  /\ LET listing == get_team_history_files_cached(team_id, AnEnumeration(disk[team_dir(team_id)].files))
         file_paths == FilePaths(listing.files)
         r == [pc |-> "pool", kind |-> "scan", team_id |-> team_id,
               hit |-> Usable(team_cache, team_id, now), files |-> listing.files,
               best |-> BestInit,
               status |-> [k \in 1..NumBatches(Len(file_paths)) |-> "queued"],
               result |-> [k \in 1..NumBatches(Len(file_paths)) |-> BestInit]]
     IN IF listing.raised \/ Len(file_paths) <= BATCH_SIZE
        THEN LET out == BestOfListing(team_id, listing, <<>>)
             IN /\ team_cache' = out.cache
                /\ req' = req
                /\ ret' = [op |-> "best", team |-> team_id, val |-> out.val, hit |-> r.hit,
                           count |-> out.count, pooled |-> out.pooled]
        ELSE /\ team_cache' = listing.cache
             /\ req' = [req EXCEPT ![th] = r]
             /\ ret' = ret
  /\ UNCHANGED <<accepted, disk, teams_data, now, phase, unseen, nSubmits, nTicks, nRestarts>>

\* a free worker takes the batch submitted first
pool_start(th, k) ==
  /\ req[th].pc = "pool"
  /\ k \in Queued(req[th].status)
  /\ \A j \in Queued(req[th].status) : k <= j
  /\ Cardinality(Running(req[th].status)) < MAX_WORKER_THREADS
  /\ req' = [req EXCEPT ![th].status[k] = "running"]
  /\ UNCHANGED <<accepted, disk, teams_data, team_cache, now, phase, ret, unseen, nSubmits, nTicks, nRestarts>>

\* calculate_best_records_batch (lines 477-517) returns for batch k
pool_finish(th, k) ==
  /\ req[th].pc = "pool"
  /\ k \in Running(req[th].status)
  /\ req' = [req EXCEPT ![th].status[k] = "done",
                        ![th].result[k] =
                          calculate_best_records_batch(Batch(FilePaths(req[th].files), k))]
  /\ UNCHANGED <<accepted, disk, teams_data, team_cache, now, phase, ret, unseen, nSubmits, nTicks, nRestarts>>

\* lines 558-569: as_completed yields a finished future, its result is merged
pool_merge(th, k) ==
  /\ req[th].pc = "pool"
  /\ k \in DOMAIN req[th].status
  /\ req[th].status[k] = "done"
  /\ req' = [req EXCEPT ![th].status[k] = "merged",
                        ![th].best = MergeBatch(@, req[th].result[k])]
  /\ UNCHANGED <<accepted, disk, teams_data, team_cache, now, phase, ret, unseen, nSubmits, nTicks, nRestarts>>

\* lines 575-588, once the loop of line 558 has ended
pool_return(th) ==
  /\ req[th].pc = "pool"
  /\ PoolDrained(req[th].status)
  /\ team_cache' = IF req[th].team_id \in DOMAIN team_cache
                   THEN [team_cache EXCEPT ![req[th].team_id].best_records_cached = TRUE]
                   ELSE team_cache
  /\ req' = [req EXCEPT ![th] = Idle]
  /\ ret' = CacheReturn(req[th], FALSE, req[th].files, req[th].best)
  /\ UNCHANGED <<accepted, disk, teams_data, now, phase, unseen, nSubmits, nTicks, nRestarts>>

\* The archive of team "t1" holds up to MaxPoolFiles timestamp-named
\* records, the oldest of them possibly unreadable.
PoolArchive(n, bad) ==
  {File(TRUE, i, i, IF i = bad THEN "unreadable" ELSE "ok",
        Report(i % (MaxQps + 1), 0, 0, ZeroBuckets), 0) : i \in 0..n - 1}

InitPool ==
  /\ \E n \in 0..MaxPoolFiles, bad \in {None, 0} :
       /\ bad < n
       /\ disk = [t \in Teams |->
                    IF t = ScanTeam
                    THEN [exists |-> TRUE, files |-> PoolArchive(n, bad), latest |-> NoLatest]
                    ELSE EmptyDir]
  /\ teams_data = EmptyMap
  /\ team_cache = EmptyMap
  /\ now = MaxPoolFiles
  /\ phase = "serving"
  /\ ret = [op |-> "start"]
  /\ unseen = [t \in TeamIds |-> NoUnseen]
  /\ nSubmits = 0
  /\ nTicks = 0
  /\ nRestarts = 0
  /\ req = [th \in Threads |-> Idle]
  /\ accepted = [t \in TeamIds |-> <<>>]

NextPool ==
  \/ pool_begin(1, ScanTeam)
  \/ \E k \in 1..NumBatches(MaxPoolFiles) : pool_start(1, k)
  \/ \E k \in 1..NumBatches(MaxPoolFiles) : pool_finish(1, k)
  \/ \E k \in 1..NumBatches(MaxPoolFiles) : pool_merge(1, k)
  \/ pool_return(1)

SpecPool == InitPool /\ [][NextPool]_vars

\* ------------------------------------------------------ the order of locks
\* Every function that takes data_lock or cache_lock, reduced to the
\* sequence of lock acquisitions, lock releases and file operations it
\* executes; a function with branches or an exception path has one sequence
\* per path.  threading.Lock is not reentrant: an acquire waits while any
\* thread, the caller included, holds the lock.
Acquire(lock) == [do |-> "acquire", lock |-> lock]

Release(lock) == [do |-> "release", lock |-> lock]

FileIO == [do |-> "io", lock |-> "none"]

Locked(lock) == <<Acquire(lock), Release(lock)>>

\* get_team_history_files_cached: no directory (250-251); the sort raises
\* (301); the whole function
ListingPaths ==
  {<<>>,
   <<Acquire("cache_lock"), FileIO, Release("cache_lock"), FileIO>>,
   <<Acquire("cache_lock"), FileIO, Release("cache_lock"), FileIO>> \o Locked("cache_lock")}

\* calculate_best_records: the test of 523-529, the listing, and for a
\* listing with records the batches and the mark of 575-578
ScanPaths ==
  {Locked("cache_lock") \o l : l \in ListingPaths}
    \cup {Locked("cache_lock") \o l \o <<FileIO>> \o Locked("cache_lock") :
            l \in ListingPaths \ {<<>>}}

NestedPaths(op) == {<<Acquire("data_lock")>> \o Locked("cache_lock") \o <<Release("data_lock")>>}

LockOps ==
  {"submit_stats", "get_teams", "get_team_stats", "handle_connect", "cleanup_inactive_teams",
   "team_history_page", "get_team_history_files_cached", "calculate_best_records",
   "clear_team_cache", "get_cache_status", "load_single_team", "load_all_teams_on_startup"}

LockPaths(op) ==
  CASE op = "submit_stats" ->
         \* rejected (614-619); TypeError inside the block; accepted and saved
         {<<>>, Locked("data_lock"), Locked("data_lock") \o <<FileIO>>}
    [] op \in {"get_teams", "get_team_stats", "handle_connect", "cleanup_inactive_teams"} ->
         {Locked("data_lock")}
    [] op = "team_history_page" ->
         {Locked("data_lock"), <<Acquire("data_lock"), FileIO, Release("data_lock")>>}
    [] op = "get_team_history_files_cached" -> ListingPaths
    [] op = "calculate_best_records" -> ScanPaths
    [] op \in {"clear_team_cache", "get_cache_status"} -> {Locked("cache_lock")}
    [] op = "load_single_team" -> {<<FileIO>>} \cup {<<FileIO>> \o s : s \in ScanPaths}
    [] op = "load_all_teams_on_startup" ->
         \* no team directory; one loaded team stored (431-432), then 446-449
         {<<FileIO>>, <<FileIO>> \o Locked("data_lock") \o Locked("cache_lock")}

Holders(lock) == {th \in Threads : req[th].pc = "locks" /\ lock \in req[th].held}

\* a thread starts to execute a function along one of its paths
lock_begin(th, op) ==
  /\ req[th].pc = "idle"
  /\ \E path \in LockPaths(op) :
       /\ path # <<>>
       /\ req' = [req EXCEPT ![th] = [pc |-> "locks", op |-> op, path |-> path, held |-> {}]]
  /\ UNCHANGED <<accepted, disk, teams_data, team_cache, now, phase, ret, unseen, nSubmits, nTicks, nRestarts>>

\* the next statement of the path can execute
CanStep(th) ==
  /\ req[th].pc = "locks"
  /\ Head(req[th].path).do = "acquire" => Holders(Head(req[th].path).lock) = {}

lock_step(th) ==
  /\ CanStep(th)
  /\ LET r == req[th]
         s == Head(r.path)
         held == IF s.do = "acquire" THEN r.held \cup {s.lock}
                 ELSE IF s.do = "release" THEN r.held \ {s.lock}
                 ELSE r.held
     IN req' = [req EXCEPT ![th] = IF Tail(r.path) = <<>> THEN Idle
                                   ELSE [r EXCEPT !.path = Tail(r.path), !.held = held]]
  /\ UNCHANGED <<accepted, disk, teams_data, team_cache, now, phase, ret, unseen, nSubmits, nTicks, nRestarts>>

InitLocks == InitMetrics

NextLocks ==
  \/ \E th \in Threads, op \in LockOps : FirstIdle(th) /\ lock_begin(th, op)
  \/ \E th \in Threads : lock_step(th)

SpecLocks == InitLocks /\ [][NextLocks]_vars

\* ------------------------------------------------------ teams side by side
\* The handlers called with every team id of TeamIds: the key of teams_data
\* and team_cache is the id, the archive is the directory the id names.
NextTeams ==
  \/ load_all_teams_on_startup
  \/ Tick(1)
  \/ \E t \in TeamIds, n \in TeamNames, r \in SubmitReports : submit_stats(t, n, r)
  \/ \E t \in TeamIds : get_team_history_files(t)
  \/ \E t \in TeamIds : CalculateBestRecords(t)
  \/ \E t \in TeamIds : clear_team_cache(t)
  \/ clear_all_cache

SpecTeams == Init /\ [][NextTeams]_vars

\* ------------------------------------------------ a scan among other calls
\* calculate_best_records step by step with its executor, while another
\* thread lists the archive, submits or clears the cache.  A thread that is
\* inside a call keeps running, and a thread that waits for cache_lock gets
\* it when the lock is released again and again: strong fairness of every
\* thread's steps.

\* lines 543-556 for more than BATCH_SIZE records: the batches are submitted
pool_dispatch(th) ==
  /\ req[th].pc = "read"
  /\ Len(req[th].files) > BATCH_SIZE
  /\ LET r == req[th]
         nb == NumBatches(Len(r.files))
     IN req' = [req EXCEPT ![th] =
                  [pc |-> "pool", kind |-> "scan", team_id |-> r.team_id, hit |-> r.hit,
                   files |-> r.files, best |-> BestInit,
                   status |-> [k \in 1..nb |-> "queued"],
                   result |-> [k \in 1..nb |-> BestInit]]]
  /\ UNCHANGED <<accepted, disk, teams_data, team_cache, now, phase, ret, unseen, nSubmits, nTicks, nRestarts>>

\* the call of calculate_best_records_batch for batch k ends with an
\* exception: the future holds it
pool_raise(th, k) ==
  /\ req[th].pc = "pool"
  /\ k \in Running(req[th].status)
  /\ req' = [req EXCEPT ![th].status[k] = "raised"]
  /\ UNCHANGED <<accepted, disk, teams_data, team_cache, now, phase, ret, unseen, nSubmits, nTicks, nRestarts>>

\* a future holding an exception is never yielded
pool_never_yielded(th, k) ==
  /\ req[th].pc = "pool"
  /\ k \in DOMAIN req[th].status
  /\ req[th].status[k] = "raised"
  /\ UNCHANGED vars

\* lines 559-560 and 571-573: future.result() raises, the loop continues
pool_skip(th, k) ==
  /\ req[th].pc = "pool"
  /\ k \in DOMAIN req[th].status
  /\ req[th].status[k] = "raised"
  /\ req' = [req EXCEPT ![th].status[k] = "merged"]
  /\ UNCHANGED <<accepted, disk, teams_data, team_cache, now, phase, ret, unseen, nSubmits, nTicks, nRestarts>>

\* the steps of the call thread th is in
ThreadStep(th) ==
  \/ cache_acquire(th)
  \/ cache_hash(th)
  \/ cache_glob(th)
  \/ cache_install(th)
  \/ req[th].pc = "read" /\ Len(req[th].files) <= BATCH_SIZE /\ scan_read(th)
  \/ scan_mark(th)
  \/ pool_dispatch(th)
  \/ \E k \in 1..NumBatches(MaxFairFiles + 1) : pool_start(th, k)
  \/ \E k \in 1..NumBatches(MaxFairFiles + 1) : pool_finish(th, k)
  \/ \E k \in 1..NumBatches(MaxFairFiles + 1) : pool_raise(th, k)
  \/ \E k \in 1..NumBatches(MaxFairFiles + 1) : pool_merge(th, k)
  \/ \E k \in 1..NumBatches(MaxFairFiles + 1) : pool_skip(th, k)
  \/ CacheLockFree /\ pool_return(th)

\* the thread that scans; the others list
Scanner == 1

\* the report submitted while the scan runs
FairReport == Report(MaxQps, 0, 0, ZeroBuckets)

InitFair ==
  /\ \E n \in 0..MaxFairFiles :
       disk = [t \in Teams |->
                 IF t = ScanTeam
                 THEN [exists |-> TRUE, files |-> PoolArchive(n, None), latest |-> NoLatest]
                 ELSE EmptyDir]
  /\ teams_data = EmptyMap
  /\ team_cache = EmptyMap
  /\ now = MaxFairFiles
  /\ phase = "serving"
  /\ ret = [op |-> "start"]
  /\ unseen = [t \in TeamIds |-> NoUnseen]
  /\ nSubmits = 0
  /\ nTicks = 0
  /\ nRestarts = 0
  /\ req = [th \in Threads |-> Idle]
  /\ accepted = [t \in TeamIds |-> <<>>]

NextFair ==
  \/ \E n \in TeamNames : nSubmits = 0 /\ submit_stats(ScanTeam, n, FairReport)
  \/ CacheLockFree /\ clear_team_cache(ScanTeam)
  \/ cache_begin(Scanner, "scan", ScanTeam)
  \/ \E th \in Threads \ {Scanner} : cache_begin(th, "list", ScanTeam)
  \/ \E th \in Threads : ThreadStep(th)

SpecFair == InitFair /\ [][NextFair]_vars /\ \A th \in Threads : SF_vars(ThreadStep(th))

\* ----------------------------------------------------------------- claims
AvgLatency(f) == calculate_overall_metrics(f.stats).avg_latency

SetMax(S) == CHOOSE x \in S : \A y \in S : y <= x

SetMin(S) == CHOOSE x \in S : \A y \in S : x <= y

\* the best values of a set of records: the maximum QPS (0 when there is no
\* record) and the minimum positive latency (None when there is none)
MaxQpsOf(S) == SetMax({f.stats.avgCompletedQPS : f \in S} \cup {0})

MinLatencyOf(S) ==
  LET pos == {AvgLatency(f) : f \in {g \in S : AvgLatency(g) > 0}}
  IN IF pos = {} THEN None ELSE SetMin(pos)

AllOk(t) == \A f \in disk[t].files : f.status = "ok"

\* the archive holds only records as save_team_data writes them
AsWritten(t) == \A f \in disk[t].files : f.std /\ f.status = "ok"

\* C1: for an archive whose records are all readable, calculate_best_records
\* returns the maximum avgCompletedQPS (0 when none is above 0) and the
\* minimum positive avg latency (absent when there is none)
C1_BestIsMaxAndMin ==
  (ret.op = "best" /\ AllOk(ret.team)) =>
    /\ ret.val.best_qps = MaxQpsOf(disk[ret.team].files)
    /\ ret.val.best_latency = MinLatencyOf(disk[ret.team].files)

\* C2: a second calculate_best_records with no submission (and no other
\* operation) since the first returns the same result and leaves the cache
\* entry as the first call wrote it
C2_SecondCallFromCache ==
  [][(ret.op = "best" /\ ret'.op = "best" /\ ret'.team = ret.team)
       => (ret'.val = ret.val /\ team_cache' = team_cache)]_vars

\* C3: the first calculate_best_records after successful submissions for a
\* team returns a best QPS at least the QPS of each of them and a best
\* latency at most each positive latency among them
C3_NextScanReflectsSubmit ==
  [][\A t \in Teams :
       (ret'.op = "best" /\ ret'.team = t) =>
         /\ ret'.val.best_qps >= unseen[t].qps
         /\ unseen[t].lat # Inf =>
              (ret'.val.best_latency # None /\ ret'.val.best_latency <= unseen[t].lat)]_vars

\* C4: right after a successful submit_stats for a team, team_cache holds no
\* usable entry for that team
C4_SubmitInvalidatesCache ==
  [][\A t \in Teams :
       (nSubmits' = nSubmits + 1 /\ ret'.team = t /\ ret'.status = 200)
         => ~Usable(team_cache', t, now')]_vars

LiveLatency(td) == IF td.best_latency = Inf THEN None ELSE td.best_latency

\* C5: while the server is serving and no submission is in flight, a team's
\* live best_qps and best_latency equal those calculate_best_records returns
C5_LiveEqualsArchive ==
  phase = "serving" =>
    \A t \in DOMAIN teams_data : \A out \in calculate_best_records(t) :
      /\ teams_data[t].best_qps = out.val.best_qps
      /\ LiveLatency(teams_data[t]) = out.val.best_latency

\* C6: two scans of the same archive return the same result (values and
\* timestamps), whatever the enumeration and the batch completion order
C6_ScanOrderIndependent ==
  [][(ret.op = "best" /\ ret'.op = "best" /\ ret'.team = ret.team /\ AsWritten(ret.team))
       => ret'.val = ret.val]_vars

\* C7: the timestamp reported with a best value is the earliest timestamp
\* among the records that have this value
C7_EarliestTimestampOnTie ==
  (ret.op = "best" /\ AsWritten(ret.team)) =>
    LET S == disk[ret.team].files
    IN /\ ret.val.best_qps > 0 =>
            ret.val.best_qps_time =
              SetMin({f.ts : f \in {g \in S : g.stats.avgCompletedQPS = ret.val.best_qps}})
       /\ ret.val.best_latency # None =>
            ret.val.best_latency_time =
              SetMin({f.ts : f \in {g \in S : AvgLatency(g) = ret.val.best_latency}})

\* C8: a record that fails at a step of its processing contributes nothing:
\* the best values are those of the records that do not fail
C8_FailedRecordExcluded ==
  (ret.op = "best" /\ \A f \in disk[ret.team].files : f.std) =>
    LET good == {f \in disk[ret.team].files : f.status = "ok"}
    IN /\ ret.val.best_qps = MaxQpsOf(good)
       /\ ret.val.best_latency = MinLatencyOf(good)

\* a record the listing can take a timestamp from
Listable(f) == f.std \/ (f.status # "unreadable" /\ f.ts # None)

\* C9: the listing never raises, and it returns every record that is not
\* malformed
C9_ListingNeverAborts ==
  ret.op = "list" =>
    /\ ~ret.raised
    /\ \A f \in disk[ret.team].files :
         Listable(f) => \E i \in 1..Len(ret.files) : ret.files[i].filename = NameOf(f)

\* C10: the listed records are in descending order of their timestamps
C10_ListSortedDescending ==
  (ret.op = "list" /\ ~ret.raised) =>
    \A i, j \in 1..Len(ret.files) :
      (i < j /\ ret.files[i].timestamp # NoTimestamp /\ ret.files[j].timestamp # NoTimestamp)
        => ret.files[i].timestamp.t >= ret.files[j].timestamp.t

\* C11: two listings of the same archive return the records in the same
\* order, whatever order the directory is enumerated in
C11_ListOrderDeterministic ==
  [][(ret.op = "list" /\ ret'.op = "list" /\ ret'.team = ret.team
        /\ ~ret.raised /\ ~ret'.raised)
       => ret'.files = ret.files]_vars

\* absent, or a finite positive number
FiniteOrAbsent(x) == x = None \/ (0 < x /\ x < Inf)

NoBest == [best_qps |-> 0, best_qps_time |-> None, best_latency |-> None, best_latency_time |-> None]

\* C12: calculate_best_records of an empty archive returns best_qps 0 with
\* best_latency and both times absent, and the best_latency returned by
\* calculate_best_records, by GET /api/teams/<id> and in the stats_update
\* event is absent or a finite positive number
C12_NoInfinityEscapes ==
  /\ ret.op = "best" =>
       /\ FiniteOrAbsent(ret.val.best_latency)
       /\ disk[ret.team].files = {} => ret.val = NoBest
  /\ (ret.op = "stats" /\ ret.status = 200) => FiniteOrAbsent(ret.best_latency)
  /\ ret.op = "submit" =>
       \A i \in 1..Len(ret.events) : FiniteOrAbsent(ret.events[i].best_latency)

\* a scan of an archive none of whose records has a positive latency
C12_Witness ==
  /\ ret.op = "best"
  /\ disk[ret.team].files # {}
  /\ ret.val.best_latency = None

\* C13: a successful submission adds exactly one record to the team's
\* archive and leaves every record written before as it was
C13_ArchiveAppendOnly ==
  [][\A t \in Teams :
       (nSubmits' = nSubmits + 1 /\ ret'.team = t /\ ret'.status = 200) =>
         /\ disk[t].files \subseteq disk'[t].files
         /\ Cardinality(disk'[t].files) = Cardinality(disk[t].files) + 1]_vars

\* the fingerprint of a team directory as it is now
CurrentFingerprint(t) ==
  get_file_mtime_hash(GlobJson(t, CHOOSE e \in Enumerations(disk[t].files) : TRUE))

\* C16: a listing or a scan finds its cache entry usable only when the
\* entry's fingerprint is the archive's current one and the entry is
\* younger than CACHE_EXPIRE_SECONDS
C16_HitOnlyWhileValid ==
  [][\A t \in Teams :
       (ret'.op \in {"list", "best"} /\ ret'.team = t /\ nTicks' = nTicks /\ ret'.hit)
         => EntryValid(t, CurrentFingerprint(t))]_vars

\* C17: the fingerprint of a directory is the same for every order in which
\* its files are enumerated
C17_FingerprintOrderIndependent ==
  \A t \in Teams :
    LET fingerprint == CurrentFingerprint(t)
    IN \A e \in Enumerations(disk[t].files) : get_file_mtime_hash(GlobJson(t, e)) = fingerprint

\* a listing of a directory of at least two records and latest.json has
\* stored a fingerprint
C17_Witness ==
  /\ ret.op = "list"
  /\ ~ret.raised
  /\ Cardinality(disk[ret.team].files) >= 2
  /\ disk[ret.team].latest.present
  /\ ret.team \in DOMAIN team_cache
  /\ team_cache[ret.team].file_mtime_hash = CurrentFingerprint(ret.team)

\* C19: for a team without a directory the listing returns no record and
\* the scan returns best_qps 0 with best_latency absent; neither raises nor
\* changes team_cache, teams_data or the archive
C19_UnknownTeamNoData ==
  [][\A t \in Teams :
       (ret'.op \in {"list", "best"} /\ ret'.team = t /\ ~disk[t].exists) =>
         /\ ret'.op = "list" => (~ret'.raised /\ ret'.files = <<>>)
         /\ ret'.op = "best" => ret'.val = NoBest
         /\ team_cache' = team_cache
         /\ teams_data' = teams_data
         /\ disk' = disk]_vars

\* a scan for a team without a directory, while another team has one
C19_Witness ==
  /\ ret.op = "best"
  /\ ~disk[ret.team].exists
  /\ ret.team \notin DOMAIN team_cache
  /\ \E t \in Teams : disk[t].exists

\* C20: a submission without a body, with a body StatsReport refuses or
\* without X-Team-ID is answered 400 and changes neither teams_data nor
\* team_cache nor any archive, and emits no event
C20_RejectedBeforeCore ==
  [][(ret'.op = "submit" /\ ret'.error \in BadBodies \cup {"header"}) =>
       /\ ret'.status = 400
       /\ ret'.events = <<>>
       /\ teams_data' = teams_data
       /\ team_cache' = team_cache
       /\ disk' = disk]_vars

\* a submission turned down while a team has live state and an archive
C20_Witness ==
  /\ ret.op = "submit"
  /\ ret.error = "header"
  /\ teams_data # EmptyMap
  /\ \E t \in Teams : disk[t].files # {}

\* the record of a team's archive with the greatest timestamp
NewestRecord(t) == CHOOSE f \in disk[t].files : \A g \in disk[t].files : g.ts <= f.ts

\* C14: while no submission is in flight, latest.json holds the content of
\* the archive record with the greatest timestamp
C14_LatestIsNewest ==
  NoRequest =>
    \A t \in Teams :
      disk[t].latest.present =>
        /\ disk[t].files # {}
        /\ disk[t].latest.ts = NewestRecord(t).ts
        /\ disk[t].latest.stats = NewestRecord(t).stats

C18_LiveMetricsOfLastReport ==
  [][\A t \in Teams :
       (ret'.op = "stats" /\ ret'.team = t /\ NoRequest /\ req' = req /\ nTicks' = nTicks) =>
         /\ teams_data' = teams_data /\ team_cache' = team_cache /\ disk' = disk
         /\ t \notin DOMAIN teams_data => ret'.status = 404
         /\ t \in DOMAIN teams_data =>
              /\ ret'.status = 200
              /\ (disk[t].files # {} /\ accepted[t] = <<NewestRecord(t).stats>>) =>
                   ret'.metrics = calculate_overall_metrics(accepted[t][1])]_vars

\* the time a record was written: in its name, otherwise in its content
TimeOf(f) == IF f.std THEN f.id ELSE f.ts

\* the records of a team: the files that hold a complete record
RecordsOf(t) == {f \in disk[t].files : f.status # "unreadable"}

FileNamed(t, name) == CHOOSE f \in disk[t].files : NameOf(f) = name

\* C21: for limit > 0 and offset >= 0 the history page holds the records at
\* positions offset..offset+limit-1 of the team's records in descending
\* order of time, total is the number of records, has_more is true exactly
\* when offset + limit < total, and two consecutive pages share no record
C21_PagesOfDescendingList ==
  [][\A t \in Teams :
       (ret'.op = "history" /\ ret'.team = t) =>
         LET records == RecordsOf(t)
             total == Cardinality(records)
             page == ret'.history
             expected == Min(ret'.limit, total - ret'.offset)
         IN /\ ret'.status = 200
            /\ ret'.total = total
            /\ ret'.has_more <=> (ret'.offset + ret'.limit < total)
            /\ Len(page) = IF expected < 0 THEN 0 ELSE expected
            /\ \A i \in 1..Len(page) :
                 LET f == FileNamed(t, page[i])
                 IN /\ f \in records
                    /\ Cardinality({g \in records : TimeOf(g) > TimeOf(f)})
                         <= ret'.offset + i - 1
                    /\ Cardinality({g \in records : TimeOf(g) >= TimeOf(f)})
                         >= ret'.offset + i
            /\ (/\ ret.op = "history" /\ ret.team = t /\ ret.limit = ret'.limit
                /\ ret'.offset = ret.offset + ret.limit) =>
                 \A i \in 1..Len(ret.history), j \in 1..Len(page) : ret.history[i] # page[j]]_vars

\* C22: for non-negative counters the data loss rate is 0 when totalSent is
\* 0 and otherwise max(0, totalSent - totalOps - pending) / totalSent * 100;
\* it is never negative and never above 100
C22_DataLossRate ==
  ret.op = "loss" =>
    LET s == ret.stats
        lost == s.totalSent - s.totalOps - s.pending
    IN /\ s.totalSent = 0 => RatEq(ret.val, Rat(0, 1))
       /\ s.totalSent # 0 =>
            RatEq(ret.val, Rat((IF lost > 0 THEN lost ELSE 0) * 100, s.totalSent))
       /\ RatLeq(Rat(0, 1), ret.val)
       /\ RatLeq(ret.val, Rat(100, 1))

\* sent 1000, completed 980, pending 15 gives 0.5
C22_Witness ==
  /\ ret.op = "loss"
  /\ ret.stats = [totalSent |-> 1000, totalOps |-> 980, pending |-> 15]
  /\ RatEq(ret.val, Rat(1, 2))

\* C23: the average latency is totalAvgLatency when the report has one (0
\* included), otherwise the histogram's average when the histogram counts
\* at least one request, otherwise 0
C23_AvgLatencyPrecedence ==
  ret.op = "avg" =>
    /\ ret.stats.totalAvgLatency # None => ret.val = ret.stats.totalAvgLatency
    /\ (ret.stats.totalAvgLatency = None /\ SumSeq(ret.stats.buckets) > 0) =>
         ret.val = ret.stats.avg
    /\ (ret.stats.totalAvgLatency = None /\ SumSeq(ret.stats.buckets) = 0) =>
         ret.val = 0

\* a precomputed 0 wins over a positive histogram average
C23_Witness ==
  /\ ret.op = "avg"
  /\ ret.stats.totalAvgLatency = 0
  /\ ret.stats.avg > 0
  /\ SumSeq(ret.stats.buckets) > 0
  /\ ret.val = 0

\* C24: for a bucket list whose counts sum to 0, the empty list included,
\* the p99 estimate is 0
C24_P99OfNoRequests ==
  (ret.op = "p99" /\ SumSeq(ret.buckets) = 0) => RatEq(ret.val, Rat(0, 1))

C24_Witness ==
  /\ ret.op = "p99"
  /\ ret.buckets = <<>>
  /\ RatEq(ret.val, Rat(0, 1))

\* C25, as stated: for the buckets [100,200,150,80,50,20,10,5,2,1,0,0,0]
\* the p99 estimate lies between boundaries[9] (1000) and boundaries[10]
\* (2000)
C25_BetweenBoundaries9And10 ==
  (ret.op = "p99" /\ ret.buckets = ExampleBuckets) =>
    /\ RatLeq(Rat(bucket_boundaries[10], 1), ret.val)
    /\ RatLeq(ret.val, Rat(bucket_boundaries[11], 1))

\* C25, amended: the counts sum to 618, the threshold 611.82 is reached at
\* the cumulative sum 615 of the bucket with index 7, so the estimate lies
\* between boundaries[6] (100) and boundaries[7] (200) and is
\* 100 + (611.82 - 610) / 5 * 100 = 136.4
C25_BetweenBoundaries6And7 ==
  (ret.op = "p99" /\ ret.buckets = ExampleBuckets) =>
    /\ RatLeq(Rat(bucket_boundaries[7], 1), ret.val)
    /\ RatLeq(ret.val, Rat(bucket_boundaries[8], 1))
    /\ RatEq(ret.val, Rat(1364, 10))

C25_Witness ==
  /\ ret.op = "p99"
  /\ ret.buckets = ExampleBuckets
  /\ SumSeq(ret.buckets) = 618
  /\ Cumulative(ret.buckets, 7) = 610
  /\ Cumulative(ret.buckets, 8) = 615

\* C26: no thread holds cache_lock or data_lock while it lists a directory,
\* reads a modification time, or reads or writes a file
C26_NoLockDuringFileIO ==
  \A th \in Threads : AtFileIO(th) => (~HoldsCacheLock(th) /\ ~HoldsDataLock(th))

\* C27: a cache entry is only ever replaced as a whole by the listing that
\* installs it, no step changes a field of an existing entry, and an entry
\* marked best_records_cached is the entry the marking scan installed
C27_EntryReplacedAsAWhole ==
  [][\A t \in Teams :
       /\ (t \in DOMAIN team_cache /\ t \in DOMAIN team_cache' /\ team_cache'[t] # team_cache[t]) =>
            \E th \in Threads :
              /\ req[th].pc = "install" /\ req'[th] # req[th] /\ req[th].team_id = t
              /\ team_cache'[t] = TeamCache(Len(req[th].files), now, FALSE, req[th].hash)
       /\ \A th \in Threads :
            (/\ req[th].pc = "mark" /\ req'[th] = Idle /\ req[th].team_id = t
             /\ t \in DOMAIN team_cache' /\ team_cache'[t].best_records_cached) =>
              team_cache'[t] = [req[th].installed EXCEPT !.best_records_cached = TRUE]]_vars

\* C28: the entry a listing installs carries the fingerprint of the
\* directory whose records it counted, also when a submission writes a
\* record while the listing runs
C28_FingerprintOfFilesCounted ==
  [][\A th \in Threads :
       (req[th].pc = "install" /\ req'[th] # req[th]) =>
         /\ team_cache'[req[th].team_id].file_count = Len(req[th].files)
         /\ team_cache'[req[th].team_id].file_mtime_hash = req[th].globbed]_vars

\* the entry of a team as the update in progress (if any) will leave it
Completing(t) ==
  {LET td == teams_data[t]
       r == req[o]
   IN BestView(IF r.pc = "latency" /\ r.current_latency > 0 /\ td.best_latency # None
                    /\ r.current_latency < td.best_latency
                 THEN [td EXCEPT !.best_latency = r.current_latency, !.best_latency_time = now]
                 ELSE td)
   : o \in {o \in Threads : HoldsDataLock(o) /\ req[o].team_id = t}}

\* C29: no reader sees a half-written entry: GET /api/teams/<id> answers
\* while no update of the entry is in progress, and the best values carried
\* by a stats_update event are those of the entry after one complete update
\* (one that completed since the submission's own, or the one in progress
\* once it is complete)
C29_ReadersSeeCompleteUpdates ==
  [][/\ (ret'.op = "stats" /\ ret' # ret) => \A th \in Threads : ~HoldsDataLock(th)
     /\ \A th \in Threads :
          (req[th].pc = "emit_latency" /\ req'[th] = Idle) =>
            BestView(ret'.events[1]) \in req[th].seen \cup Completing(req[th].team_id)]_vars

\* C30: a scan is sequential exactly when it has fewer than BATCH_SIZE
\* records; with BATCH_SIZE records or more it goes through the thread pool
C30_PooledFromBatchSize ==
  (ret.op = "best" /\ ret.count > 0) => (ret.pooled <=> ret.count >= BATCH_SIZE)

\* C31: during a pooled scan at most MAX_WORKER_THREADS batches run at the
\* same time, every listed record is in exactly one batch and no batch has
\* more than BATCH_SIZE records, and the scan returns only once every batch
\* has completed and been merged
C31_BoundedPoolAllMerged ==
  [][\A th \in Threads :
       /\ req'[th].pc = "pool" =>
            LET file_paths == FilePaths(req'[th].files)
                batches == DOMAIN req'[th].status
            IN /\ Cardinality(Running(req'[th].status)) <= MAX_WORKER_THREADS
               /\ \A k \in batches : Len(Batch(file_paths, k)) <= BATCH_SIZE
               /\ \A i \in 1..Len(file_paths) :
                    Cardinality({k \in batches :
                                   \E j \in 1..Len(Batch(file_paths, k)) :
                                     Batch(file_paths, k)[j] = file_paths[i]}) = 1
       /\ (req[th].pc = "pool" /\ req'[th].pc = "idle") =>
            /\ \A k \in DOMAIN req[th].status : req[th].status[k] = "merged"
            /\ ret'.op = "best" /\ ret'.pooled]_vars

\* every worker is busy while a batch still waits
C31_Witness ==
  \E th \in Threads :
    /\ req[th].pc = "pool"
    /\ Cardinality(Running(req[th].status)) = MAX_WORKER_THREADS
    /\ Queued(req[th].status) # {}

\* the loop iteration at which calculate_p99_latency returns
FirstReached(buckets) ==
  CHOOSE i \in Reached(buckets) : \A j \in Reached(buckets) : i <= j

\* C32: for non-negative bucket counts with a positive total the loop
\* reaches the threshold, and does so at a bucket whose count is not 0: the
\* fallback return is not taken and the interpolation divides by a non-zero
\* count
C32_ThresholdReachedAtNonEmptyBucket ==
  (ret.op = "p99" /\ SumSeq(ret.buckets) > 0) =>
    /\ Reached(ret.buckets) # {}
    /\ ret.buckets[FirstReached(ret.buckets)] > 0
    /\ ret.val.den > 0

\* the threshold is reached after buckets without requests
C32_Witness ==
  /\ ret.op = "p99"
  /\ SumSeq(ret.buckets) > 0
  /\ Len(ret.buckets) = 13
  /\ ret.buckets[1] = 0
  /\ FirstReached(ret.buckets) = 13

\* C33: for 13 non-negative bucket counts with a positive total the p99
\* estimate is finite and lies between the lower and the upper boundary of
\* the bucket that holds the 99th-percentile rank, the last bucket included
C33_FiniteWithinBucket ==
  (ret.op = "p99" /\ Len(ret.buckets) = 13 /\ SumSeq(ret.buckets) > 0) =>
    LET i == FirstReached(ret.buckets)
        lower == IF i = 1 THEN 0 ELSE bucket_boundaries[i - 1]
    IN /\ ret.val.num # Inf
       /\ RatLeq(Rat(lower, 1), ret.val)
       /\ RatLeq(ret.val, Rat(bucket_boundaries[i], 1))

\* a best latency that has been set: neither absent nor the initial infinity
LatencySet(td) == td.best_latency # None /\ td.best_latency # Inf

\* C34: while the server runs, a team's best_qps never decreases and its
\* best_latency, once set, never increases; after an accepted report
\* best_qps is at least the report's QPS and best_latency at most the
\* report's average latency when that is positive
C34_LiveBestMonotone ==
  [][\A t \in Teams :
       (t \in DOMAIN teams_data /\ t \in DOMAIN teams_data') =>
         /\ teams_data'[t].best_qps >= teams_data[t].best_qps
         /\ LatencySet(teams_data[t]) =>
              /\ LatencySet(teams_data'[t])
              /\ teams_data'[t].best_latency <= teams_data[t].best_latency
         /\ (/\ ret'.op = "submit" /\ ret'.status = 200 /\ ret'.team = t
             /\ nSubmits' = nSubmits + 1) =>
              LET data == ret'.events[1].stats
                  latency == calculate_overall_metrics(data).avg_latency
              IN /\ teams_data'[t].best_qps >= data.avgCompletedQPS
                 /\ latency > 0 =>
                      /\ LatencySet(teams_data'[t])
                      /\ teams_data'[t].best_latency <= latency]_vars

\* an accepted report that is worse than the team's best in both respects
C34_Witness ==
  /\ ret.op = "submit" /\ ret.status = 200
  /\ ret.team \in DOMAIN teams_data
  /\ teams_data[ret.team].best_qps > ret.events[1].stats.avgCompletedQPS
  /\ LatencySet(teams_data[ret.team])
  /\ teams_data[ret.team].best_latency
       < calculate_overall_metrics(ret.events[1].stats).avg_latency

\* C35: a schema-valid report with a team id is accepted whatever the team's
\* live state; when the team had no best latency (a new team, or one loaded
\* from an archive without a positive latency) and the report's latency is
\* positive, that latency becomes the team's best latency
C35_ValidReportAccepted ==
  [][\A t \in Teams :
       (/\ ret'.op = "submit" /\ "team" \in DOMAIN ret' /\ ret'.team = t
        /\ nSubmits' = nSubmits + 1) =>
         /\ ret'.status = 200
         /\ Len(ret'.events) = 1
         /\ LET latency == calculate_overall_metrics(ret'.events[1].stats).avg_latency
            IN (latency > 0 /\ (t \notin DOMAIN teams_data \/ ~LatencySet(teams_data[t]))) =>
                 teams_data'[t].best_latency = latency]_vars

\* C36: a submission is all or nothing: answered with an error it leaves the
\* team's live state and the archive as they were; answered with success the
\* live state holds the report and the archive holds its record
C36_SubmitAllOrNothing ==
  [][/\ (ret'.op = "submit" /\ ret'.status # 200 /\ (ret' # ret \/ nSubmits' # nSubmits)) =>
          (teams_data' = teams_data /\ disk' = disk)
     /\ \A t \in Teams :
         (/\ ret'.op = "submit" /\ ret'.status = 200 /\ ret'.team = t
          /\ nSubmits' = nSubmits + 1) =>
           /\ t \in DOMAIN teams_data'
           /\ teams_data'[t].stats = ret'.events[1].stats
           /\ teams_data'[t].last_update = now
           /\ \E f \in disk'[t].files :
                f.std /\ f.id = now /\ f.stats = ret'.events[1].stats
           /\ disk'[t].latest.present /\ disk'[t].latest.stats = ret'.events[1].stats]_vars

\* C37: no thread holds data_lock and cache_lock at the same time, and
\* whenever some thread is inside a function, some such thread can execute
\* its next statement: no set of threads waits for locks for ever
C37_NoTwoLocksNoDeadlock ==
  /\ \A th \in Threads :
       req[th].pc = "locks" => ~({"data_lock", "cache_lock"} \subseteq req[th].held)
  /\ (\E th \in Threads : req[th].pc = "locks") => (\E th \in Threads : CanStep(th))

\* one thread holds data_lock while another thread holds cache_lock
C37_Witness ==
  /\ Holders("data_lock") # {}
  /\ Holders("cache_lock") # {}
  /\ Holders("data_lock") \cap Holders("cache_lock") = {}

\* the live state, the cache entry and the archive of team b
TeamState(b, td, tc, d) ==
  [live |-> IF b \in DOMAIN td THEN <<td[b]>> ELSE <<>>,
   cache |-> IF b \in DOMAIN tc THEN <<tc[b]>> ELSE <<>>,
   archive |-> d[team_dir(b)]]

\* a step of a handler called for team a
StepFor(a) ==
  /\ ret'.op \in {"submit", "list", "best", "clear"}
  /\ "team" \in DOMAIN ret'
  /\ ret'.team = a
  /\ nTicks' = nTicks

\* C38: a submission, a listing, a scan or a cache clear for team a leaves
\* the live state, the cache entry and the archive of every other team b
\* with live state as they were; clearing for one team removes exactly that team's entry and
\* clearing without a team removes every entry
C38_TeamsIsolated ==
  [][\A a \in TeamIds \cup {"*"} :
       StepFor(a) =>
         /\ \A b \in DOMAIN teams_data \ {a} :
              a # "*" => TeamState(b, teams_data', team_cache', disk')
                           = TeamState(b, teams_data, team_cache, disk)
         /\ ret'.op = "clear" =>
              team_cache' = IF a = "*" THEN EmptyMap ELSE Remove(team_cache, a)]_vars

\* C38 with the team ids that name directories of their own
C38_IsolatedDirectories ==
  [][\A a \in Teams :
       StepFor(a) =>
         \A b \in (Teams \cap DOMAIN teams_data) \ {a} :
           TeamState(b, teams_data', team_cache', disk')
             = TeamState(b, teams_data, team_cache, disk)]_vars
\* thread th is inside calculate_best_records
Scanning(th) == req[th].pc # "idle" /\ req[th].kind = "scan"

\* batch k of the scan of thread th has been submitted to the executor and
\* its future has no outcome yet
Dispatched(th, k) ==
  /\ req[th].pc = "pool"
  /\ k \in DOMAIN req[th].status
  /\ req[th].status[k] \in {"queued", "running"}

\* C39: the thread inside calculate_best_records eventually returns, and every
\* batch submitted to the executor eventually has its outcome, a result or
\* an exception, while another thread lists, submits and clears
C39_ScanTerminates ==
  /\ Scanning(Scanner) ~> ~Scanning(Scanner)
  /\ \A k \in 1..NumBatches(MaxFairFiles + 1) :
       Dispatched(Scanner, k) ~> ~Dispatched(Scanner, k)

\* a batch has raised while the other thread holds cache_lock in a listing
C39_Witness ==
  \E th \in Threads, other \in Threads :
    /\ req[th].pc = "pool"
    /\ \E k \in DOMAIN req[th].status : req[th].status[k] = "raised"
    /\ HoldsCacheLock(other)

\* team t's cache entry carries the mark of a finished scan
Marked(tc, t) == t \in DOMAIN tc /\ tc[t].best_records_cached

\* C40: a step that neither changes team t's archive nor clears its cache
\* entry nor restarts the server (a history listing, a scan, a submission of
\* another team, the passing of time) leaves a set best_records_cached set
C40_MarkStays ==
  [][\A t \in Teams :
       (/\ Marked(team_cache, t)
        /\ disk'[t] = disk[t]
        /\ ~(ret'.op \in {"clear", "restart"} /\ ret' # ret))
         => Marked(team_cache', t)]_vars

====
